---- MODULE Spec2Model ----
(***************************************************************************)
(* Credential resolution, token cache and service-account rotation of the  *)
(* Google Drive CDN worker (src/lib/drive.js, class DriveClient), together *)
(* with the way the worker's fetch handler builds one DriveClient per      *)
(* request.                                                                *)
(*                                                                         *)
(* An asynchronous function is modelled as a process whose program counter *)
(* stops at every await; everything between two awaits is one action.      *)
(***************************************************************************)
EXTENDS Integers, Sequences, FiniteSets, TLC

\* ------------------------------------------------------------------ bounds
MaxClients == 2
MaxCalls == 2
MaxMints == 4
MaxTicks == 1
MaxWalk == 3
MaxEvents == 3

\* ------------------------------------------------------- program constants
\* cached.expiresAt > Date.now() + 60000
SafetyMarginMs == 60000
\* (tokenData.expires_in || 3600) * 1000
DefaultExpiresIn == 3600
MsPerSecond == 1000
\* for (let i = 0; i < 100; i++)
NumberedLimit == 100

\* --------------------------------------------------------- credential data
\* A service-account record as the code reads it: client_email is the cache
\* key, private_key is what the token endpoint authenticates.
NoAccount == [client_email |-> "", private_key |-> ""]
saA == [client_email |-> "a@sa", private_key |-> "kA"]
saB == [client_email |-> "b@sa", private_key |-> "kB"]
saC == [client_email |-> "c@sa", private_key |-> "kC"]
\* A parsed record without a private_key field: JSON.parse accepts it.
saNoKey == [client_email |-> "d@sa", private_key |-> ""]
PrivateKeys == {"kA", "kB", "kC"}
\* Two keys of one service account (the key files of one account carry the
\* same client_email), and two records without a client_email field.
saRekeyed == [client_email |-> "a@sa", private_key |-> "kC"]
saAnonA == [client_email |-> "", private_key |-> "kA"]
saAnonB == [client_email |-> "", private_key |-> "kB"]

\* One value of an environment variable holding JSON: kind "json" parses to
\* value, kind "bad" makes JSON.parse throw, kind "blank" is whitespace only,
\* kind "unset" is a missing (falsy) variable.
Json(a) == [kind |-> "json", value |-> a]
BadJson == [kind |-> "bad", value |-> NoAccount]
Unset == [kind |-> "unset", value |-> NoAccount]

\* The env object handed to the DriveClient constructor.
\*   SERVICE_ACCOUNTS_URL    TRUE when the variable is set
\*   GDRIVE_SERVICE_ACCOUNTS the '|||'-separated pieces, << >> when unset
\*   NUMBERED                GDRIVE_SERVICE_ACCOUNT_0, _1, ... (Unset for gaps)
\*   GDRIVE_SERVICE_ACCOUNT  the legacy single value
\*   GOOGLE_*                TRUE when the OAuth variable is a non-empty string
MkEnv(url, joined, numbered, legacy, oauth) ==
    [SERVICE_ACCOUNTS_URL |-> url, GDRIVE_SERVICE_ACCOUNTS |-> joined,
     NUMBERED |-> numbered, GDRIVE_SERVICE_ACCOUNT |-> legacy,
     GOOGLE_CLIENT_ID |-> oauth, GOOGLE_CLIENT_SECRET |-> oauth,
     GOOGLE_REFRESH_TOKEN |-> oauth]

EnvUrl == MkEnv(TRUE, <<Json(saC)>>, << >>, Unset, FALSE)
EnvNumbered == MkEnv(FALSE, << >>, <<Json(saA), Json(saB)>>, Unset, FALSE)
EnvJoined == MkEnv(FALSE, <<Json(saA), Json(saB), Json(saC)>>, << >>, Unset, TRUE)
EnvLegacy == MkEnv(FALSE, << >>, << >>, Json(saA), TRUE)
EnvOAuth == MkEnv(FALSE, << >>, << >>, Unset, TRUE)
EnvNothing == MkEnv(FALSE, << >>, << >>, BadJson, FALSE)
\* A malformed piece between two well-formed ones, and only
\* GDRIVE_SERVICE_ACCOUNT_2 of the numbered variables.
EnvJoinedBad ==
    MkEnv(FALSE, <<Json(saA), BadJson, Json(saB)>>, <<Unset, Unset, Json(saC)>>,
          Unset, FALSE)
\* Only GDRIVE_SERVICE_ACCOUNT_2 is set, nothing else but the OAuth inputs.
EnvNumberedGap == MkEnv(FALSE, << >>, <<Unset, Unset, Json(saB)>>, Unset, TRUE)
\* The legacy variable holds a record without private_key.
EnvLegacyNoKey == MkEnv(FALSE, << >>, << >>, Json(saNoKey), TRUE)
\* OAuth inputs of which the refresh token is missing.
EnvOAuthPartial == [EnvOAuth EXCEPT !.GOOGLE_REFRESH_TOKEN = FALSE]

\* The module src/service-accounts.json as import() delivers it: absent (the
\* import rejects), or a default export with or without an accounts array.
NoBundle == [present |-> FALSE, hasAccounts |-> FALSE, accounts |-> << >>]
Bundle(accts) == [present |-> TRUE, hasAccounts |-> TRUE, accounts |-> accts]

\* The deployments considered: environment, bundled file, and the credentials
\* the token endpoint rejects at the start ("refresh_token" stands for the
\* OAuth refresh token).
Deploy(env, file, rejected) == [env |-> env, file |-> file, broken |-> rejected]
Deployments ==
    { Deploy(EnvUrl, NoBundle, {"kA"}),
      Deploy(EnvUrl, Bundle(<<saA, saB>>), {}),
      Deploy(EnvNumbered, NoBundle, {"kA"}),
      Deploy(EnvNumbered, NoBundle, {"kA", "kB"}),
      Deploy(EnvJoined, NoBundle, {"kA", "kB"}),
      Deploy(EnvLegacy, NoBundle, {}),
      Deploy(EnvLegacy, NoBundle, {"kA"}),
      Deploy(EnvOAuth, NoBundle, {}),
      Deploy(EnvOAuth, NoBundle, {"refresh_token"}),
      Deploy(EnvNothing, NoBundle, {}),
      Deploy(EnvLegacy, Bundle(<< >>), {}),
      Deploy(EnvJoinedBad, NoBundle, {}),
      Deploy(EnvNumberedGap, NoBundle, {}),
      Deploy(EnvLegacyNoKey, NoBundle, {}),
      Deploy(EnvOAuthPartial, NoBundle, {}) }

\* The health of the credentials can change between calls: the set of rejected
\* credentials after such a change.
BrokenSets == { {"kB"} }

\* What a GET of SERVICE_ACCOUNTS_URL can deliver.
UrlResponses ==
    { [kind |-> "throw", accounts |-> << >>],
      [kind |-> "notOk", accounts |-> << >>],
      [kind |-> "ok", accounts |-> <<saA, saB>>],
      [kind |-> "ok", accounts |-> <<saB>>],
      [kind |-> "ok", accounts |-> << >>] }

\* The token endpoint's JSON on success: expires_in may be omitted.
TokenResponses ==
    { [has_expires_in |-> FALSE, expires_in |-> 0],
      [has_expires_in |-> TRUE, expires_in |-> 0],
      [has_expires_in |-> TRUE, expires_in |-> 30] }

\* Steps by which the clock (Date.now(), epoch ms) advances.
TickSteps == { 3539000, 3540000, 3541000 }

\* ------------------------------------------------------- pure definitions
\* withDefaults(env): copies only GOOGLE_*, GDRIVE_*, DRIVE_UPLOAD_ROOT,
\* API_TOKENS, CDN_BASE_URL, DASHBOARD_*, DRIVE_PROFILES over LOCAL_CONFIG, so
\* SERVICE_ACCOUNTS_URL does not reach the config.
withDefaults(env) == [env EXCEPT !.SERVICE_ACCOUNTS_URL = FALSE]

\* The try block over the '|||' pieces: pushes each non-blank piece parsed,
\* the first malformed piece throws and ends the loop (pieces pushed before
\* it stay in accounts).
RECURSIVE ParseJoined(_, _)
ParseJoined(pieces, accounts) ==
    IF pieces = << >> THEN accounts
    ELSE IF Head(pieces).kind = "bad" THEN accounts
    ELSE IF Head(pieces).kind = "json"
         THEN ParseJoined(Tail(pieces), Append(accounts, Head(pieces).value))
    ELSE ParseJoined(Tail(pieces), accounts)

\* The loop over GDRIVE_SERVICE_ACCOUNT_<i>, i = 0 .. 99: a set variable is
\* parsed and pushed (a malformed one is skipped); at an unset one the loop
\* breaks when i > 0 and nothing has been collected.  Past the last variable
\* that is set nothing more is pushed, so the iteration ends there.
RECURSIVE ParseNumbered(_, _, _)
ParseNumbered(numbered, i, accounts) ==
    IF i >= NumberedLimit \/ i >= Len(numbered) THEN accounts
    ELSE LET v == numbered[i + 1]
         IN IF v.kind # "unset"
            THEN ParseNumbered(numbered, i + 1,
                     IF v.kind = "json" THEN Append(accounts, v.value) ELSE accounts)
            ELSE IF i > 0 /\ Len(accounts) = 0 THEN accounts
            ELSE ParseNumbered(numbered, i + 1, accounts)

parseServiceAccounts(env) ==
    ParseNumbered(env.NUMBERED, 0, ParseJoined(env.GDRIVE_SERVICE_ACCOUNTS, << >>))

\* Method 3 and the legacy fallback of loadServiceAccounts.
EnvironmentAccounts(env) ==
    LET parsed == parseServiceAccounts(env)
    IN IF Len(parsed) = 0 /\ env.GDRIVE_SERVICE_ACCOUNT.kind = "json"
       THEN <<env.GDRIVE_SERVICE_ACCOUNT.value>>
       ELSE parsed

BundledIgnored(b) == FALSE

\* bundledServiceAccounts?.default with data.accounts an array (of any length).
BundledUsable(b) == b.present /\ b.hasAccounts

\* fetchServiceAccountToken(serviceAccount) resolves: sign() throws on a record
\* without private_key (pem.replace of undefined), and the token endpoint
\* rejects the credentials in rejected.
Accepted(account, rejected) ==
    account.private_key # "" /\ account.private_key \notin rejected

\* getCurrentServiceAccount(): NoAccount stands for null.
getCurrentServiceAccount(accounts, index) ==
    IF Len(accounts) = 0 THEN NoAccount
    ELSE accounts[(index % Len(accounts)) + 1]

RotateStuck(accounts, index) == index

RotateUnguarded(accounts, index) == index + 1

\* rotateServiceAccount(): the new value of currentServiceAccountIndex.
rotateServiceAccount(accounts, index) ==
    IF Len(accounts) > 1 THEN (index + 1) % Len(accounts) ELSE index

\* serviceAccount.client_email || 'default'
AccountKey(account) ==
    IF account.client_email = "" THEN "default" ELSE account.client_email

\* A cache entry; present = FALSE stands for Map.get() returning undefined.
\* mintedAt and reported record the mint that wrote the entry.
NoToken == [key |-> "", serial |-> 0]
NoEntry ==
    [present |-> FALSE, token |-> NoToken, expiresAt |-> 0, mintedAt |-> 0,
     reported |-> [has_expires_in |-> FALSE, expires_in |-> 0]]

CacheNeverValid(entry, t) == FALSE

CacheMarginIgnored(entry, t) == entry.present /\ entry.expiresAt > t

\* cached && cached.expiresAt > Date.now() + 60000
CacheValid(entry, t) == entry.present /\ entry.expiresAt > t + SafetyMarginMs

\* tokenData.expires_in || 3600
Lifetime(resp) ==
    IF resp.has_expires_in /\ resp.expires_in # 0 THEN resp.expires_in
    ELSE DefaultExpiresIn

ExpiresAtSeconds(t, resp) == t + Lifetime(resp)

\* Date.now() + (tokenData.expires_in || 3600) * 1000
ExpiresAt(t, resp) == t + Lifetime(resp) * MsPerSecond

CacheKeys == {"a@sa", "b@sa", "c@sa", "d@sa", "default", "oauth"}
EmptyCache == [k \in CacheKeys |-> NoEntry]


\* ------------------------------------------------------------------ state
VARIABLES
    procEnv,                        \* the deployment's environment variables
    bundledFile,                    \* what import('../service-accounts.json') yields
    broken,                         \* credentials the token endpoint rejects
    bundledServiceAccountsPromise,  \* module-level: "null", "pending", "resolved"
    bundledServiceAccountsCache,    \* module-level: the imported module, or NoBundle
    clients,                        \* the DriveClient objects of the process
    calls,                          \* the getAccessToken() invocations
    now,                            \* Date.now()
    ticks,                          \* clock steps taken
    mints,                          \* token exchanges started so far
    urlFetches,                     \* GETs of SERVICE_ACCOUNTS_URL sent so far
    resolutions,                    \* completed runs of loadServiceAccounts
    driveOps,                       \* the Drive request made with each call's token
    invocation,                     \* the last handler or function applied, with its input
    outcome,                        \* what that application produced
    STATS,                          \* the KV namespace bound as env.STATS
    trackers,                       \* the trackUpload/trackFileRequest/trackDelete calls
    dashboard                       \* the dashboard page's script (assets/main.js)

vars ==
    <<procEnv, bundledFile, broken, bundledServiceAccountsPromise,
      bundledServiceAccountsCache, clients, calls, now, ticks, mints, urlFetches,
      resolutions, driveOps, invocation, outcome, STATS, trackers, dashboard>>

config == <<procEnv, bundledFile>>

\* The usage counters and the dashboard page, and everything else.
apart == <<STATS, trackers, dashboard>>
worker ==
    <<procEnv, bundledFile, broken, bundledServiceAccountsPromise,
      bundledServiceAccountsCache, clients, calls, now, ticks, mints, urlFetches,
      resolutions, driveOps, invocation, outcome>>

\* What the token machinery never touches.
beside == <<driveOps, invocation, outcome, apart>>

ClientIds == 1 .. MaxClients
CallIds == 1 .. MaxCalls

\* A DriveClient slot before its constructor has run.
NoClient ==
    [exists |-> FALSE, env |-> MkEnv(FALSE, << >>, << >>, Unset, FALSE),
     serviceAccounts |-> << >>, currentServiceAccountIndex |-> 0,
     accountsLoaded |-> FALSE, cachedTokens |-> EmptyCache,
     overlapped |-> FALSE, assignments |-> 0]

\* constructor(env): serviceAccounts = [], currentServiceAccountIndex = 0,
\* accountsLoaded = false, cachedTokens = new Map().  overlapped records that two
\* getAccessToken() calls were in progress on the client at the same time,
\* assignments counts the writes of this.serviceAccounts.
DriveClient(env) == [NoClient EXCEPT !.exists = TRUE, !.env = env]

\* A getAccessToken() invocation slot not yet used.  pc, client, serviceAccount
\* and accountKey are the position and the locals of the invocation, exchange
\* numbers the token exchange it awaits (the token endpoint answers each
\* exchange with a token of its own); the locals are cleared when their scope
\* ends.  The other fields record its
\* history: the mint attempts made and on which credentials; the cursor, the
\* rejected credentials and whether the cache was empty when it was invoked;
\* and what it returned.
NoCall ==
    [pc |-> "idle", client |-> 0, serviceAccount |-> NoAccount, accountKey |-> "",
     exchange |-> 0, attempts |-> 0, tried |-> << >>, startCursor |-> 0, startFresh |-> FALSE,
     health |-> {}, hit |-> FALSE, result |-> NoToken, resultExpiresAt |-> 0,
     error |-> ""]

Active(c) == calls[c].pc \notin {"idle", "done", "failed"}

\* A Drive request of fetchRaw or streamFile, the upstream response, and what
\* the method gives its caller.  An empty range or cacheControl stands for an
\* absent header.
NoDriveRequest == [fn |-> "", method |-> "", range |-> ""]
NoDriveResponse ==
    [status |-> 0, cacheControl |-> "", allowOrigin |-> "", contentDisposition |-> "",
     body |-> ""]
NoHeaders == [allowOrigin |-> "", contentDisposition |-> "", cacheControl |-> ""]
NoDriveResult == [kind |-> "", status |-> 0, body |-> "", headers |-> NoHeaders]

\* The Drive operation of a call slot: request is what the operation is,
\* sent counts the requests made to Drive, bearer, method and range are the
\* token, the method and the Range header sent.
NoDriveOp ==
    [pc |-> "none", request |-> NoDriveRequest, sent |-> 0, bearer |-> NoToken,
     method |-> "", range |-> "", response |-> NoDriveResponse, result |-> NoDriveResult]

\* No handler or function has been applied yet.
NoInvocation == [fn |-> "none"]
NoOutcome == [fn |-> "none"]

\* A value of the KV namespace: the text stored under a key, or null.
Missing == [present |-> FALSE, value |-> << >>]
Value(text) == [present |-> TRUE, value |-> text]

\* The counters the store holds when the deployment is observed: none yet for
\* uploads, 9 file requests, 19 deletes.
StatsKeys == {"total_uploads", "total_file_requests", "total_deletes"}
InitialStats ==
    [key \in StatsKeys |->
        CASE key = "total_uploads" -> Missing
          [] key = "total_file_requests" -> Value(<<"9">>)
          [] OTHER -> Value(<<"1", "9">>)]

\* A tracking call that has not started.  current is what its get returned.
TrackerIds == 1 .. MaxEvents
NoTracker == [pc |-> "idle", key |-> "", current |-> Missing]

\* The dashboard script before init(): the module-level variables of
\* assets/main.js.  A list of files is kept as the set of requests (search
\* term and type) whose results it holds; searchDebounce is the timer.
NoFilesRequest == [inFlight |-> FALSE, search |-> "", type |-> "", reset |-> FALSE]
NoPage ==
    [started |-> FALSE, cdnFiles |-> {}, filteredFiles |-> {}, currentFilter |-> "all",
     currentSearch |-> "", nextPageToken |-> FALSE, isLoadingFiles |-> FALSE,
     searchDebounce |-> [pending |-> FALSE, reset |-> FALSE],
     isFilterFetchPending |-> FALSE, loadMoreShown |-> FALSE,
     request |-> NoFilesRequest]

\* The module scope and the bookkeeping before any request is handled.
Fresh ==
    /\ STATS = InitialStats
    /\ trackers = [e \in TrackerIds |-> NoTracker]
    /\ dashboard = NoPage
    /\ bundledServiceAccountsPromise = "null"
    /\ bundledServiceAccountsCache = NoBundle
    /\ clients = [k \in ClientIds |-> NoClient]
    /\ calls = [c \in CallIds |-> NoCall]
    /\ now = 0
    /\ ticks = 0
    /\ mints = 0
    /\ urlFetches = 0
    /\ resolutions = 0
    /\ driveOps = [c \in CallIds |-> NoDriveOp]
    /\ invocation = NoInvocation
    /\ outcome = NoOutcome

Init ==
    /\ \E d \in Deployments :
          procEnv = d.env /\ bundledFile = d.file /\ broken = d.broken
    /\ Fresh

\* ---------------------------------------------------------------- actions
\* loadServiceAccounts() up to its first await: where the caller continues.
LoadEntryPc(client) == IF client.accountsLoaded THEN "loaded" ELSE "awaitBundled"

\* The first free slot of clients.
FreeClient(k) ==
    /\ ~clients[k].exists
    /\ IF k = 1 THEN TRUE ELSE clients[k - 1].exists

\* The first free slot of calls.
FreeCall(c) ==
    /\ calls[c].pc = "idle"
    /\ IF c = 1 THEN TRUE ELSE calls[c - 1].pc # "idle"

\* getAccessToken() is invoked on client: it runs loadServiceAccounts() up to
\* the first await, creating the module-level import promise when there is none.
Invoked(client, k) ==
    [NoCall EXCEPT !.pc = LoadEntryPc(client), !.client = k,
        !.startCursor = client.currentServiceAccountIndex,
        !.startFresh = (client.cachedTokens = EmptyCache), !.health = broken]

PromiseAfterInvoke(client) ==
    IF ~client.accountsLoaded /\ bundledServiceAccountsPromise = "null"
    THEN "pending" ELSE bundledServiceAccountsPromise

\* The worker's fetch handler serves a request that needs Drive: config =
\* withDefaults(env), drive = new DriveClient(config), and the Drive operation
\* of the route calls drive.getAccessToken() before its first await.
WorkerRequest(c, k) ==
    /\ FreeCall(c)
    /\ FreeClient(k)
    /\ clients' = [clients EXCEPT ![k] = DriveClient(withDefaults(procEnv))]
    /\ calls' = [calls EXCEPT ![c] = Invoked(DriveClient(withDefaults(procEnv)), k)]
    /\ bundledServiceAccountsPromise' = PromiseAfterInvoke(NoClient)
    /\ UNCHANGED <<config, beside, broken, bundledServiceAccountsCache, now, ticks, mints,
                   urlFetches, resolutions>>

\* An importer of lib/drive.js builds new DriveClient(env) from the environment
\* as it is and calls getAccessToken() on it.  Without SERVICE_ACCOUNTS_URL in
\* the environment withDefaults(env) is env and the step is WorkerRequest's.
DirectUse(c, k) ==
    /\ FreeCall(c)
    /\ FreeClient(k)
    /\ procEnv.SERVICE_ACCOUNTS_URL
    /\ clients' = [clients EXCEPT ![k] = DriveClient(procEnv)]
    /\ calls' = [calls EXCEPT ![c] = Invoked(DriveClient(procEnv), k)]
    /\ bundledServiceAccountsPromise' = PromiseAfterInvoke(NoClient)
    /\ UNCHANGED <<config, beside, broken, bundledServiceAccountsCache, now, ticks, mints,
                   urlFetches, resolutions>>

\* A further getAccessToken() on an existing client: the next Drive call of the
\* same request (countFiles page after page), or a call that overlaps an
\* earlier one (handleDashboardSummary starts two Drive operations on one
\* client with Promise.all).
StartCall(c, k) ==
    /\ FreeCall(c)
    /\ clients[k].exists
    /\ calls' = [calls EXCEPT ![c] = Invoked(clients[k], k)]
    /\ clients' = [clients EXCEPT ![k].overlapped =
           @ \/ \E d \in CallIds : d # c /\ Active(d) /\ calls[d].client = k]
    /\ bundledServiceAccountsPromise' = PromiseAfterInvoke(clients[k])
    /\ UNCHANGED <<config, beside, broken, bundledServiceAccountsCache, now, ticks, mints,
                   urlFetches, resolutions>>

\* The import() promise settles: .then stores the module, .catch stores null.
ImportSettled ==
    /\ bundledServiceAccountsPromise = "pending"
    /\ bundledServiceAccountsPromise' = "resolved"
    /\ bundledServiceAccountsCache' = bundledFile
    /\ UNCHANGED <<config, beside, broken, clients, calls, now, ticks, mints, urlFetches, resolutions>>

\* this.serviceAccounts = accounts; this.accountsLoaded = true
Resolved(client, accounts) ==
    [client EXCEPT !.serviceAccounts = accounts, !.accountsLoaded = TRUE,
                   !.assignments = @ + 1]

\* loadServiceAccounts() after `await bundledServiceAccountsPromise`: method 1,
\* else the start of the URL fetch (method 2), else methods 3 and 4.
AfterBundled(c) ==
    LET k == calls[c].client
        cl == clients[k]
        b == bundledServiceAccountsCache
    IN /\ calls[c].pc = "awaitBundled"
       /\ bundledServiceAccountsPromise = "resolved"
       /\ IF BundledUsable(b)
          THEN /\ clients' = [clients EXCEPT ![k] = Resolved(cl, b.accounts)]
               /\ calls' = [calls EXCEPT ![c].pc = "loaded"]
               /\ resolutions' = resolutions + 1
               /\ UNCHANGED urlFetches
          ELSE IF cl.env.SERVICE_ACCOUNTS_URL
          THEN /\ calls' = [calls EXCEPT ![c].pc = "awaitFetch"]
               /\ urlFetches' = urlFetches + 1
               /\ UNCHANGED <<clients, resolutions>>
          ELSE /\ clients' = [clients EXCEPT ![k] = Resolved(cl, EnvironmentAccounts(cl.env))]
               /\ calls' = [calls EXCEPT ![c].pc = "loaded"]
               /\ resolutions' = resolutions + 1
               /\ UNCHANGED urlFetches
       /\ UNCHANGED <<config, beside, broken, bundledServiceAccountsPromise, bundledServiceAccountsCache,
                      now, ticks, mints>>

\* The fetch of SERVICE_ACCOUNTS_URL settles (with response.json()): an ok
\* response with an accounts array is used, anything else falls through to
\* the environment variables.
FetchSettled(c, resp) ==
    LET k == calls[c].client
        cl == clients[k]
    IN /\ calls[c].pc = "awaitFetch"
       /\ clients' = [clients EXCEPT ![k] =
              IF resp.kind = "ok" THEN Resolved(cl, resp.accounts)
              ELSE Resolved(cl, EnvironmentAccounts(cl.env))]
       /\ calls' = [calls EXCEPT ![c].pc = "loaded"]
       /\ resolutions' = resolutions + 1
       /\ UNCHANGED <<config, beside, broken, bundledServiceAccountsPromise, bundledServiceAccountsCache,
                      now, ticks, mints, urlFetches>>


BranchUnchecked(client, t) ==
    LET sa == getCurrentServiceAccount(client.serviceAccounts,
                                       client.currentServiceAccountIndex)
    IN IF sa # NoAccount
       THEN IF CacheValid(client.cachedTokens[AccountKey(sa)], t)
            THEN "cachedAccount" ELSE "mintAccount"
       ELSE IF CacheValid(client.cachedTokens["oauth"], t)
            THEN "cachedOAuth" ELSE "refresh"

\* getAccessToken() after `await this.loadServiceAccounts()`: the branch it takes.
Branch(client, t) ==
    LET sa == getCurrentServiceAccount(client.serviceAccounts,
                                       client.currentServiceAccountIndex)
    IN IF sa # NoAccount
       THEN IF CacheValid(client.cachedTokens[AccountKey(sa)], t)
            THEN "cachedAccount" ELSE "mintAccount"
       ELSE IF ~(client.env.GOOGLE_CLIENT_ID /\ client.env.GOOGLE_CLIENT_SECRET
                 /\ client.env.GOOGLE_REFRESH_TOKEN)
            THEN "noAuth"
       ELSE IF CacheValid(client.cachedTokens["oauth"], t)
            THEN "cachedOAuth" ELSE "refresh"

\* The call returns the token of a cache entry.
ReturnCached(call, client, entry) ==
    [call EXCEPT !.pc = "done", !.hit = TRUE, !.result = entry.token,
                 !.resultExpiresAt = entry.expiresAt,
                 !.serviceAccount = NoAccount, !.accountKey = ""]

\* getAccessToken() from getCurrentServiceAccount() to its next await, return
\* or throw: a valid cache entry is returned, otherwise the exchange with the
\* token endpoint starts (service-account JWT or OAuth refresh token), or the
\* call throws because no authentication method is configured.
Select(c) ==
    LET k == calls[c].client
        cl == clients[k]
        sa == getCurrentServiceAccount(cl.serviceAccounts, cl.currentServiceAccountIndex)
        branch == Branch(cl, now)
    IN /\ calls[c].pc = "loaded"
       /\ \/ /\ branch = "cachedAccount"
             /\ calls' = [calls EXCEPT ![c] =
                    ReturnCached(calls[c], cl, cl.cachedTokens[AccountKey(sa)])]
             /\ UNCHANGED mints
          \/ /\ branch = "mintAccount"
             /\ mints < MaxMints
             /\ calls' = [calls EXCEPT ![c] =
                    [@ EXCEPT !.pc = "minting", !.serviceAccount = sa,
                        !.accountKey = AccountKey(sa), !.exchange = mints + 1,
                        !.attempts = @ + 1,
                        !.tried = Append(@, sa.private_key)]]
             /\ mints' = mints + 1
          \/ /\ branch = "noAuth"
             /\ calls' = [calls EXCEPT ![c] =
                    [@ EXCEPT !.pc = "failed", !.error = "noAuth"]]
             /\ UNCHANGED mints
          \/ /\ branch = "cachedOAuth"
             /\ calls' = [calls EXCEPT ![c] =
                    ReturnCached(calls[c], cl, cl.cachedTokens["oauth"])]
             /\ UNCHANGED mints
          \/ /\ branch = "refresh"
             /\ mints < MaxMints
             /\ calls' = [calls EXCEPT ![c] =
                    [@ EXCEPT !.pc = "refreshing", !.accountKey = "oauth",
                        !.exchange = mints + 1]]
             /\ mints' = mints + 1
       /\ UNCHANGED <<config, beside, broken, bundledServiceAccountsPromise, bundledServiceAccountsCache,
                      clients, now, ticks, urlFetches, resolutions>>

StoredAndAdvanced(client, key, credential, n, resp) ==
    [client EXCEPT !.cachedTokens[key] =
        [present |-> TRUE, token |-> [key |-> credential, serial |-> n],
         expiresAt |-> ExpiresAt(now, resp), mintedAt |-> now, reported |-> resp],
        !.currentServiceAccountIndex =
            IF Len(client.serviceAccounts) > 1
            THEN (@ + 1) % Len(client.serviceAccounts) ELSE @]

StoredUnlessPresent(client, key, credential, n, resp) ==
    IF client.cachedTokens[key].present THEN client
    ELSE [client EXCEPT !.cachedTokens[key] =
             [present |-> TRUE, token |-> [key |-> credential, serial |-> n],
              expiresAt |-> ExpiresAt(now, resp), mintedAt |-> now, reported |-> resp]]

\* this.cachedTokens.set(key, {token, expiresAt}) for the token of exchange n.
Stored(client, key, credential, n, resp) ==
    [client EXCEPT !.cachedTokens[key] =
        [present |-> TRUE, token |-> [key |-> credential, serial |-> n],
         expiresAt |-> ExpiresAt(now, resp), mintedAt |-> now, reported |-> resp]]

\* The call returns the token it has just minted and stored.
ReturnMinted(call, client, key) ==
    [call EXCEPT !.pc = "done", !.result = client.cachedTokens[key].token,
                 !.resultExpiresAt = client.cachedTokens[key].expiresAt,
                 !.serviceAccount = NoAccount, !.accountKey = "", !.exchange = 0]

RotatedAndEvicted(client) ==
    [client EXCEPT !.currentServiceAccountIndex =
                       rotateServiceAccount(client.serviceAccounts, @),
                   !.cachedTokens = EmptyCache]

\* The client after the catch of a rejected mint: this.rotateServiceAccount()
\* and nothing else.
Rotated(client) ==
    [client EXCEPT !.currentServiceAccountIndex =
                       rotateServiceAccount(client.serviceAccounts, @)]

\* fetchServiceAccountToken() settles.  Accepted: the token is cached under the
\* key computed before the await and returned.  Rejected (catch): the cursor
\* rotates and, when there is more than one account, getAccessToken() is
\* called again (accountsLoaded is set, so its loadServiceAccounts() returns at
\* once); with a single account the error is rethrown.
MintSettled(c, resp) ==
    LET k == calls[c].client
        cl == clients[k]
        call == calls[c]
    IN /\ call.pc = "minting"
       /\ IF Accepted(call.serviceAccount, broken)
          THEN LET stored == Stored(cl, call.accountKey,
                                    call.serviceAccount.private_key, call.exchange, resp)
               IN /\ clients' = [clients EXCEPT ![k] = stored]
                  /\ calls' = [calls EXCEPT ![c] = ReturnMinted(call, stored, call.accountKey)]
          ELSE LET rotated == Rotated(cl)
               IN /\ clients' = [clients EXCEPT ![k] = rotated]
                  /\ calls' = [calls EXCEPT ![c] =
                         IF Len(cl.serviceAccounts) > 1
                         THEN [call EXCEPT !.pc = LoadEntryPc(rotated),
                                  !.serviceAccount = NoAccount, !.accountKey = "",
                                  !.exchange = 0]
                         ELSE [call EXCEPT !.pc = "failed", !.error = "mint",
                                  !.serviceAccount = NoAccount, !.accountKey = "",
                                  !.exchange = 0]]
       /\ UNCHANGED <<config, beside, broken, bundledServiceAccountsPromise, bundledServiceAccountsCache,
                      now, ticks, mints, urlFetches, resolutions>>

RefreshRetried(call) ==
    [call EXCEPT !.pc = "loaded", !.accountKey = "", !.exchange = 0]

\* refreshUserToken() throws: nothing catches the error in getAccessToken().
RefreshRejected(call) ==
    [call EXCEPT !.pc = "failed", !.error = "refresh", !.accountKey = "", !.exchange = 0]

\* refreshUserToken() settles: the token is cached under 'oauth' and returned,
\* or the error propagates to the caller.
RefreshSettled(c, resp) ==
    LET k == calls[c].client
        cl == clients[k]
        call == calls[c]
    IN /\ call.pc = "refreshing"
       /\ IF "refresh_token" \notin broken
          THEN LET stored == Stored(cl, "oauth", "refresh_token", call.exchange, resp)
               IN /\ clients' = [clients EXCEPT ![k] = stored]
                  /\ calls' = [calls EXCEPT ![c] = ReturnMinted(call, stored, "oauth")]
          ELSE /\ calls' = [calls EXCEPT ![c] = RefreshRejected(call)]
               /\ UNCHANGED clients
       /\ UNCHANGED <<config, beside, broken, bundledServiceAccountsPromise, bundledServiceAccountsCache,
                      now, ticks, mints, urlFetches, resolutions>>

\* The set of credentials the token endpoint rejects changes while no call
\* is in progress (an account is disabled or repaired).
HealthChanges(rejected) ==
    /\ \A c \in CallIds : ~Active(c)
    /\ \E k \in ClientIds : clients[k].exists
    /\ rejected # broken
    /\ broken' = rejected
    /\ UNCHANGED <<config, beside, bundledServiceAccountsPromise, bundledServiceAccountsCache,
                   clients, calls, now, ticks, mints, urlFetches, resolutions>>

\* Time passes.
Tick(d) ==
    /\ ticks < MaxTicks
    /\ now' = now + d
    /\ ticks' = ticks + 1
    /\ UNCHANGED <<config, beside, broken, bundledServiceAccountsPromise, bundledServiceAccountsCache,
                   clients, calls, mints, urlFetches, resolutions>>

Next ==
    \/ \E c \in CallIds, k \in ClientIds : WorkerRequest(c, k)
    \/ \E c \in CallIds, k \in ClientIds : DirectUse(c, k)
    \/ \E c \in CallIds, k \in ClientIds : StartCall(c, k)
    \/ ImportSettled
    \/ \E c \in CallIds : AfterBundled(c)
    \/ \E c \in CallIds, resp \in UrlResponses : FetchSettled(c, resp)
    \/ \E c \in CallIds : Select(c)
    \/ \E c \in CallIds, resp \in TokenResponses : MintSettled(c, resp)
    \/ \E c \in CallIds, resp \in TokenResponses : RefreshSettled(c, resp)
    \/ \E rejected \in BrokenSets : HealthChanges(rejected)
    \/ \E d \in TickSteps : Tick(d)

Spec == Init /\ [][Next]_vars


\* Sequential use: a getAccessToken() is invoked only when none is in progress.
Quiet == \A c \in CallIds : ~Active(c)

SeqWorkerRequest(c, k) == Quiet /\ WorkerRequest(c, k)

SeqDirectUse(c, k) == Quiet /\ DirectUse(c, k)

SeqStartCall(c, k) == Quiet /\ StartCall(c, k)

SeqNext ==
    \/ \E c \in CallIds, k \in ClientIds : SeqWorkerRequest(c, k)
    \/ \E c \in CallIds, k \in ClientIds : SeqDirectUse(c, k)
    \/ \E c \in CallIds, k \in ClientIds : SeqStartCall(c, k)
    \/ ImportSettled
    \/ \E c \in CallIds : AfterBundled(c)
    \/ \E c \in CallIds, resp \in UrlResponses : FetchSettled(c, resp)
    \/ \E c \in CallIds : Select(c)
    \/ \E c \in CallIds, resp \in TokenResponses : MintSettled(c, resp)
    \/ \E c \in CallIds, resp \in TokenResponses : RefreshSettled(c, resp)
    \/ \E rejected \in BrokenSets : HealthChanges(rejected)
    \/ \E d \in TickSteps : Tick(d)

SeqSpec == Init /\ [][SeqNext]_vars


\* ------------------------------------------------- the worker's fetch handler
\* Text is a sequence of characters.  Trim is String.prototype.trim (the only
\* whitespace considered is the space), Lower is toLowerCase on the letters
\* that occur.
RECURSIVE TrimLeft(_)
TrimLeft(text) ==
    IF text # << >> /\ Head(text) = " " THEN TrimLeft(Tail(text)) ELSE text

RECURSIVE TrimRight(_)
TrimRight(text) ==
    IF text # << >> /\ text[Len(text)] = " "
    THEN TrimRight(SubSeq(text, 1, Len(text) - 1)) ELSE text

Trim(text) == TrimRight(TrimLeft(text))

LowerChar(ch) ==
    CASE ch = "B" -> "b" [] ch = "E" -> "e" [] ch = "A" -> "a" [] ch = "R" -> "r"
      [] OTHER -> ch

Lower(text) == [i \in 1 .. Len(text) |-> LowerChar(text[i])]

StartsWith(text, prefix) ==
    Len(text) >= Len(prefix) /\ SubSeq(text, 1, Len(prefix)) = prefix

\* request.headers.get(name): present = FALSE stands for null.
NoHeader == [present |-> FALSE, value |-> << >>]
Header(text) == [present |-> TRUE, value |-> text]

BearerPrefix == <<"b", "e", "a", "r", "e", "r", " ">>
BearerLength == 7

\* extractToken(request): the text after 'bearer ' of the authorization header,
\* trimmed, else the x-api-key header (null as NoHeader).
extractToken(request) ==
    IF /\ request.authorization.present
       /\ request.authorization.value # << >>
       /\ StartsWith(Lower(request.authorization.value), BearerPrefix)
    THEN Header(Trim(SubSeq(request.authorization.value, BearerLength + 1,
                            Len(request.authorization.value))))
    ELSE request.xApiKey

AlwaysAuthorized(request, allowedTokens) == TRUE

\* isAuthorized(request, allowedTokens): allowedTokens is given as the pieces
\* between its commas.
isAuthorized(request, allowedTokens) ==
    LET candidate == extractToken(request)
    IN /\ candidate.present
       /\ candidate.value # << >>
       /\ \E i \in 1 .. Len(allowedTokens) :
              Trim(allowedTokens[i]) # << >> /\ Trim(allowedTokens[i]) = candidate.value

\* 10 * 1024 * 1024
MAX_DIRECT_UPLOAD_BYTES == 10485760

\* What a handler answers: status is the HTTP status, driveCall the DriveClient
\* method it called ("" for none), clientBuilt whether new DriveClient ran.
Answer(status, driveCall, clientBuilt) ==
    [fn |-> "fetch", status |-> status, driveCall |-> driveCall,
     clientBuilt |-> clientBuilt]

UploadLimitInclusive(size) == size >= MAX_DIRECT_UPLOAD_BYTES

\* file.size > MAX_DIRECT_UPLOAD_BYTES
ExceedsUploadLimit(size) == size > MAX_DIRECT_UPLOAD_BYTES

\* handleMultipartUpload: body.form is FALSE when request.formData() throws
\* (the error reaches the catch of fetch); drive is the Drive call's result.
handleMultipartUpload(body, drive) ==
    IF ~body.form THEN Answer(500, "", TRUE)
    ELSE IF ~body.file.isFile THEN Answer(400, "", TRUE)
    ELSE IF ExceedsUploadLimit(body.file.size) THEN Answer(413, "", TRUE)
    ELSE IF body.metadata = "invalid" THEN Answer(400, "", TRUE)
    ELSE Answer(IF drive.threw THEN 500 ELSE 201, "uploadMultipart", TRUE)

\* handleResumableInit: body.json is FALSE when request.json() throws.
handleResumableInit(body, drive) ==
    IF ~body.json THEN Answer(500, "", TRUE)
    ELSE IF ~body.name THEN Answer(400, "", TRUE)
    ELSE Answer(IF drive.threw THEN 500 ELSE 201, "createResumableSession", TRUE)

\* segments[i], "" when there is none.
Segment(request, i) ==
    IF i <= Len(request.segments) THEN request.segments[i] ELSE ""

isFileRequest(request) ==
    /\ Segment(request, 1) = "files"
    /\ Segment(request, 2) # ""
    /\ request.method \in {"GET", "HEAD"}

\* fetch(request, env, ctx) as far as the status of the response and the Drive
\* method called go.  The public pages answer without Drive; the two dashboard
\* routes build a client and call Drive without any check of the token, and
\* outside the try block of fetch: handleDashboardSummary catches the errors
\* of its Drive calls itself (.catch(() => null)) and answers 200,
\* handleDashboardFiles awaits drive.listFiles() with no catch, so that the
\* promise fetch returns rejects and there is no response (status 0).
Route(request, allowedTokens, drive) ==
    IF request.method = "OPTIONS" THEN Answer(204, "", FALSE)
    ELSE IF Len(request.segments) = 0 /\ request.method = "GET"
    THEN Answer(200, "", FALSE)
    ELSE IF Segment(request, 1) \in {"docs", "swagger", "api-docs"}
    THEN Answer(200, "", FALSE)
    ELSE IF Segment(request, 1) = "api" /\ Segment(request, 2) \in {"stats", "openapi.json"}
            /\ request.method = "GET"
    THEN Answer(200, "", FALSE)
    ELSE IF Segment(request, 1) = "api" /\ Segment(request, 2) = "dashboard"
            /\ Segment(request, 3) = "summary" /\ request.method = "GET"
    THEN Answer(200, "getDriveStorageInfo", TRUE)
    ELSE IF Segment(request, 1) = "api" /\ Segment(request, 2) = "dashboard"
            /\ Segment(request, 3) = "files" /\ request.method = "GET"
    THEN Answer(IF drive.threw THEN 0 ELSE 200, "listFiles", TRUE)
    ELSE IF ~isFileRequest(request) /\ ~isAuthorized(request, allowedTokens)
    THEN Answer(401, "", FALSE)
    ELSE IF isFileRequest(request)
    THEN Answer(IF drive.threw THEN 500 ELSE drive.status, "streamFile", TRUE)
    ELSE IF Segment(request, 1) = "api" /\ Segment(request, 2) = "files"
            /\ request.method = "POST"
    THEN handleMultipartUpload(request.body, drive)
    ELSE IF Segment(request, 1) = "api" /\ Segment(request, 2) = "uploads"
            /\ request.method = "POST"
    THEN handleResumableInit(request.body, drive)
    ELSE IF Segment(request, 1) = "api" /\ Segment(request, 2) = "files"
            /\ Segment(request, 3) # "" /\ request.method = "GET"
    THEN Answer(IF drive.threw THEN 500 ELSE 200, "getMetadata", TRUE)
    ELSE IF Segment(request, 1) = "api" /\ Segment(request, 2) = "files"
            /\ Segment(request, 3) # "" /\ request.method = "DELETE"
    THEN Answer(IF drive.threw THEN 500 ELSE 200, "deleteFile", TRUE)
    ELSE Answer(404, "", TRUE)

\* The requests considered.
Methods == {"GET", "HEAD", "POST", "DELETE", "OPTIONS"}
Paths ==
    { << >>, <<"docs">>, <<"api", "stats">>, <<"api", "dashboard", "summary">>,
      <<"api", "dashboard", "files">>,
      <<"files", "f1">>, <<"files">>, <<"api", "files">>, <<"api", "uploads">>,
      <<"api", "files", "f1">>, <<"api", "nothing">> }
Credentials ==
    { [authorization |-> NoHeader, xApiKey |-> NoHeader],
      [authorization |-> Header(<<"B", "e", "a", "r", "e", "r", " ", "s", "1">>), xApiKey |-> NoHeader],
      [authorization |-> Header(<<"b", "e", "a", "r", "e", "r", " ", "s", "1", " ">>), xApiKey |-> NoHeader],
      [authorization |-> Header(<<"B", "e", "a", "r", "e", "r", " ", "x">>), xApiKey |-> NoHeader],
      [authorization |-> Header(<<"B", "a", "s", "i", "c", " ", "s", "1">>), xApiKey |-> Header(<<"s", "1">>)],
      [authorization |-> Header(<<"B", "e", "a", "r", "e", "r", " ">>), xApiKey |-> Header(<<"s", "1">>)],
      [authorization |-> NoHeader, xApiKey |-> Header(<<"s", "1">>)],
      [authorization |-> NoHeader, xApiKey |-> Header(<<"x">>)] }
NoFile == [isFile |-> FALSE, size |-> 0]
FileOf(size) == [isFile |-> TRUE, size |-> size]
Body(form, file, metadata, json, name) ==
    [form |-> form, file |-> file, metadata |-> metadata, json |-> json, name |-> name]
Bodies ==
    { Body(FALSE, NoFile, "absent", FALSE, FALSE),
      Body(TRUE, NoFile, "absent", TRUE, FALSE),
      Body(TRUE, FileOf(0), "absent", TRUE, TRUE),
      Body(TRUE, FileOf(MAX_DIRECT_UPLOAD_BYTES - 1), "valid", TRUE, TRUE),
      Body(TRUE, FileOf(MAX_DIRECT_UPLOAD_BYTES), "valid", TRUE, TRUE),
      Body(TRUE, FileOf(MAX_DIRECT_UPLOAD_BYTES), "invalid", TRUE, TRUE),
      Body(TRUE, FileOf(MAX_DIRECT_UPLOAD_BYTES + 1), "valid", TRUE, TRUE),
      Body(TRUE, FileOf(MAX_DIRECT_UPLOAD_BYTES + 1), "invalid", TRUE, TRUE) }
Request(m, p, a, b) ==
    [method |-> m, segments |-> p, authorization |-> a.authorization,
     xApiKey |-> a.xApiKey, body |-> b]
Requests ==
    { Request(m, p, a, Body(TRUE, FileOf(0), "absent", TRUE, TRUE)) :
          m \in Methods, p \in Paths, a \in Credentials }
    \cup { Request("POST", p, a, b) :
               p \in {<<"api", "files">>, <<"api", "uploads">>},
               a \in Credentials, b \in Bodies }

\* config.API_TOKENS split at its commas.
AllowedTokenLists == { <<<<"s", "1">>>>, <<<<" ", "s", "1", " ">>, <<"s", "2">>>>, <<<< >>>> }

\* How the Drive call of a handler ends.
DriveResults ==
    { [threw |-> FALSE, status |-> 200], [threw |-> FALSE, status |-> 206],
      [threw |-> TRUE, status |-> 0] }

\* What no application of a handler or a function touches.
machine ==
    <<config, broken, bundledServiceAccountsPromise, bundledServiceAccountsCache,
      clients, calls, now, ticks, mints, urlFetches, resolutions, driveOps, apart>>

\* Handlers and functions keep no state of their own: a behaviour applies one
\* of them once, to one input.
Unapplied == invocation.fn = "none"

\* The worker answers one request.
Fetch ==
    /\ Unapplied
    /\ \E request \in Requests, allowedTokens \in AllowedTokenLists, drive \in DriveResults :
           /\ invocation' = [fn |-> "fetch", request |-> request,
                             allowedTokens |-> allowedTokens, drive |-> drive]
           /\ outcome' = Route(request, allowedTokens, drive)
    /\ UNCHANGED machine

\* The API_TOKENS variable of the deployment: not among the keys of env, or
\* set to a text given as the pieces between its commas.
NotSet == [set |-> FALSE, pieces |-> << >>]
SetTo(pieces) == [set |-> TRUE, pieces |-> pieces]

\* LOCAL_CONFIG.API_TOKENS
LOCAL_API_TOKENS ==
    <<"l", "o", "c", "a", "l", "-", "d", "e", "v", "-", "t", "o", "k", "e", "n">>

\* config.API_TOKENS of withDefaults(env): config starts as a copy of
\* LOCAL_CONFIG and the keys env has are copied over it.
configApiTokens(apiTokens) ==
    IF apiTokens.set THEN apiTokens.pieces ELSE <<LOCAL_API_TOKENS>>

ApiTokenSettings == {NotSet} \cup { SetTo(pieces) : pieces \in AllowedTokenLists }
DeployedCredentials ==
    Credentials
    \cup { [authorization |-> NoHeader, xApiKey |-> Header(LOCAL_API_TOKENS)],
           [authorization |-> Header(<<"B", "e", "a", "r", "e", "r", " ">> \o LOCAL_API_TOKENS),
            xApiKey |-> NoHeader],
           [authorization |-> NoHeader, xApiKey |-> Header(<< >>)] }
DeployedRequests ==
    { Request(m, p, a, Body(TRUE, FileOf(0), "absent", TRUE, TRUE)) :
          m \in {"GET", "POST", "DELETE"},
          p \in {<<"api", "files">>, <<"api", "uploads">>, <<"api", "files", "f1">>,
                 <<"api", "nothing">>},
          a \in DeployedCredentials }

\* The worker of a deployment answers one request to an endpoint behind the
\* token check: config = withDefaults(env), then fetch as above.
FetchDeployed ==
    /\ Unapplied
    /\ \E request \in DeployedRequests, apiTokens \in ApiTokenSettings, drive \in DriveResults :
           /\ invocation' = [fn |-> "fetchDeployed", request |-> request,
                             apiTokens |-> apiTokens, drive |-> drive]
           /\ outcome' = Route(request, configApiTokens(apiTokens), drive)
    /\ UNCHANGED machine

\* ------------------------------------------------------- DriveClient.listFiles
\* A text built by a template is a sequence of pieces: the literal parts of
\* the template are pieces as the source writes them, text that comes from
\* the caller or the configuration is one piece per character.
MAX_LIST_PAGE_SIZE == 100
DEFAULT_PAGE_SIZE == 24

\* Values of an option: undefined, a number, NaN, a string.
Undefined == [kind |-> "undefined", value |-> 0]
NaN == [kind |-> "NaN", value |-> 0]
Num(n) == [kind |-> "number", value |-> n]
Str(text) == [kind |-> "string", value |-> text]

\* Math.max, Math.min
Max(a, b) == IF a >= b THEN a ELSE b
Min(a, b) == IF a <= b THEN a ELSE b

ClampOnly(pageSize) ==
    Min(Max(IF pageSize.kind = "number" THEN pageSize.value ELSE DEFAULT_PAGE_SIZE, 1),
        MAX_LIST_PAGE_SIZE)

\* const { pageSize = 24 } = options;
\* Math.min(Math.max(pageSize || 24, 1), MAX_LIST_PAGE_SIZE): the default of the
\* destructuring applies to undefined, the || to 0 and NaN.
safeSize(pageSize) ==
    LET given == IF pageSize.kind = "undefined" THEN Num(DEFAULT_PAGE_SIZE) ELSE pageSize
        truthy == given.kind = "number" /\ given.value # 0
    IN Min(Max(IF truthy THEN given.value ELSE DEFAULT_PAGE_SIZE, 1), MAX_LIST_PAGE_SIZE)

\* Array.prototype.join
RECURSIVE Join(_, _)
Join(texts, separator) ==
    IF texts = << >> THEN << >>
    ELSE IF Len(texts) = 1 THEN texts[1]
    ELSE texts[1] \o separator \o Join(Tail(texts), separator)

\* The constructor's this.parents: the pieces of DRIVE_UPLOAD_ROOT between its
\* commas, trimmed, the empty ones dropped.
parents(root) ==
    LET NonEmpty(text) == text # << >>
    IN SelectSeq([i \in 1 .. Len(root) |-> Trim(root[i])], NonEmpty)

buildParentsQuery(parentIds) ==
    LET clauses == [i \in 1 .. Len(parentIds) |-> <<"'">> \o parentIds[i] \o <<"' in parents">>]
    IN IF Len(parentIds) = 0 THEN << >>
       ELSE IF Len(clauses) = 1 THEN clauses[1]
       ELSE <<"(">> \o Join(clauses, <<" or ">>) \o <<")">>

TYPE_FILTERS ==
    [images |-> << <<"mimeType contains 'image/'">> >>,
     video |-> << <<"mimeType contains 'video/'">> >>,
     audio |-> << <<"mimeType contains 'audio/'">> >>,
     documents |->
         << <<"mimeType = 'application/pdf'">>,
            <<"mimeType contains 'text/'">>,
            <<"mimeType contains 'application/msword'">>,
            <<"mimeType contains 'application/vnd.openxmlformats-officedocument'">>,
            <<"mimeType contains 'application/vnd.google-apps.document'">>,
            <<"mimeType contains 'application/vnd.google-apps.presentation'">>,
            <<"mimeType contains 'application/vnd.google-apps.spreadsheet'">> >>,
     code |->
         << <<"mimeType = 'application/javascript'">>,
            <<"mimeType = 'application/x-javascript'">>,
            <<"mimeType = 'text/css'">>,
            <<"mimeType = 'text/html'">>,
            <<"mimeType contains 'text/x-'">>,
            <<"mimeType contains 'application/json'">> >>,
     data |->
         << <<"mimeType = 'text/csv'">>,
            <<"mimeType = 'application/csv'">>,
            <<"mimeType contains 'spreadsheet'">>,
            <<"mimeType contains 'application/vnd.ms-excel'">>,
            <<"mimeType contains 'application/vnd.google-apps.spreadsheet'">>,
            <<"mimeType = 'application/json'">> >>]

\* TYPE_FILTERS[type] for a type that is not a class of the table: the object
\* literal inherits from Object.prototype, so 'constructor' is a function of
\* length 1 without an element 0 and '__proto__' an object without length and
\* without join; any other name considered is undefined.
Inherited(type) ==
    CASE type = "constructor" -> "function"
      [] type = "__proto__" -> "object"
      [] OTHER -> "undefined"

\* The value of a clause or of a query: threw = TRUE when building it threw.
Built(text) == [threw |-> FALSE, text |-> text]
Threw == [threw |-> TRUE, text |-> << >>]

\* buildTypeClause(type); type "" stands for an absent type.
buildTypeClause(type) ==
    IF type = "" THEN Built(<< >>)
    ELSE IF type \in DOMAIN TYPE_FILTERS
    THEN LET filters == TYPE_FILTERS[type]
         IN IF Len(filters) = 0 THEN Built(<< >>)
            ELSE IF Len(filters) = 1 THEN Built(filters[1])
            ELSE Built(<<"(">> \o Join(filters, <<" or ">>) \o <<")">>)
    ELSE IF Inherited(type) = "object" THEN Threw
    ELSE Built(<< >>)

EscapeFirstQuoteOnly(value) ==
    IF \E i \in 1 .. Len(value) : value[i] = "'"
    THEN LET first == CHOOSE i \in 1 .. Len(value) :
                          value[i] = "'" /\ \A j \in 1 .. i - 1 : value[j] # "'"
         IN SubSeq(value, 1, first - 1) \o <<"\\", "'">> \o SubSeq(value, first + 1, Len(value))
    ELSE value

\* escapeQueryValue(value): value.replace(/'/g, "\\'")
RECURSIVE escapeQueryValue(_)
escapeQueryValue(value) ==
    IF value = << >> THEN << >>
    ELSE (IF Head(value) = "'" THEN <<"\\", "'">> ELSE <<Head(value)>>)
             \o escapeQueryValue(Tail(value))

QueryPartsTypeBeforeSearch(parentIds, search, typeClause) ==
    LET parentsClause == buildParentsQuery(parentIds)
        trimmedSearch == IF search.kind = "string" THEN Trim(search.value) ELSE << >>
    IN << <<"trashed = false">> >>
       \o (IF parentsClause # << >> THEN <<parentsClause>> ELSE << >>)
       \o (IF typeClause # << >> THEN <<typeClause>> ELSE << >>)
       \o (IF trimmedSearch # << >>
           THEN << <<"name contains '">> \o escapeQueryValue(trimmedSearch) \o <<"'">> >>
           ELSE << >>)

\* queryParts of listFiles once every push has been made; typeClause is the
\* text buildTypeClause returned.
queryParts(parentIds, search, typeClause) ==
    LET parentsClause == buildParentsQuery(parentIds)
        trimmedSearch == IF search.kind = "string" THEN Trim(search.value) ELSE << >>
    IN << <<"trashed = false">> >>
       \o (IF parentsClause # << >> THEN <<parentsClause>> ELSE << >>)
       \o (IF trimmedSearch # << >>
           THEN << <<"name contains '">> \o escapeQueryValue(trimmedSearch) \o <<"'">> >>
           ELSE << >>)
       \o (IF typeClause # << >> THEN <<typeClause>> ELSE << >>)

\* listFiles(options) up to the request it sends: the pageSize and q parameters.
listFiles(parentIds, options) ==
    LET typeClause == buildTypeClause(options.type)
    IN IF typeClause.threw
       THEN [fn |-> "listFiles", threw |-> TRUE, pageSize |-> 0, q |-> << >>]
       ELSE [fn |-> "listFiles", threw |-> FALSE,
             pageSize |-> safeSize(options.pageSize),
             q |-> Join(queryParts(parentIds, options.search, typeClause.text), <<" and ">>)]

\* The inputs considered.
UploadRoots ==
    { << << >> >>,
      << <<"p", "1">> >>,
      << <<" ", "p", "1", " ">>, << >>, <<"p", "2">> >> }
PageSizes ==
    {Undefined, NaN} \cup { Num(n) : n \in {0 - 5, 0, 1, 24, 100, 101, 1000} }
Searches ==
    { Undefined, Str(<< >>), Str(<<" ", " ">>),
      Str(<<"c", "a", "t">>), Str(<<" ", "c", "a", "t", " ">>),
      Str(<<"O", "'", "B", "r", "i", "e", "n">>),
      Str(<<"'", "a", "'", "'">>),
      Str(<<"a", "\\", "'", "b">>) }
Types == {"", "images", "video", "audio", "documents", "code", "data", "zip", "constructor", "__proto__"}

\* One listFiles(options) on a client configured with root.
ListFiles ==
    /\ Unapplied
    /\ \E root \in UploadRoots, pageSize \in PageSizes, search \in Searches, type \in Types :
           /\ invocation' = [fn |-> "listFiles", root |-> root, parents |-> parents(root),
                             options |-> [pageSize |-> pageSize, search |-> search,
                                          type |-> type]]
           /\ outcome' = listFiles(parents(root),
                                   [pageSize |-> pageSize, search |-> search, type |-> type])
    /\ UNCHANGED machine

\* ------------------------------------------------------ DriveClient.countFiles
FILE_COUNT_MAX_PAGES == 20
FolderMimeType == "application/vnd.google-apps.folder"

\* A page of Drive's listing as fetchJson delivers it: hasFiles = FALSE when the
\* response has no files member, next whether it carries a nextPageToken;
\* FailedPage is a page whose request makes fetchJson throw.
Page(hasFiles, files, next) ==
    [ok |-> TRUE, hasFiles |-> hasFiles, files |-> files, next |-> next]
FailedPage == [ok |-> FALSE, hasFiles |-> FALSE, files |-> << >>, next |-> FALSE]

\* response.files || []
FilesOf(response) == IF response.hasFiles THEN response.files ELSE << >>

\* files.filter((item) => item.mimeType === FolderMimeType).length
Folders(files) == Cardinality({ i \in 1 .. Len(files) : files[i] = FolderMimeType })

\* The do-while of countFiles from the fetch of page number page + 1 on;
\* fetched counts the requests made.
RECURSIVE Walk(_, _, _, _, _)
Walk(listing, maxPages, page, totalFiles, folderCount) ==
    LET response == listing[page + 1]
        files == FilesOf(response)
        total == totalFiles + Len(files)
        folders == folderCount + Folders(files)
    IN IF ~response.ok
       THEN [fn |-> "countFiles", threw |-> TRUE, fetched |-> page + 1,
             totalFiles |-> 0, folderCount |-> 0, complete |-> FALSE]
       ELSE IF response.next /\ page + 1 < maxPages
       THEN Walk(listing, maxPages, page + 1, total, folders)
       ELSE [fn |-> "countFiles", threw |-> FALSE, fetched |-> page + 1,
             totalFiles |-> total, folderCount |-> folders,
             complete |-> ~response.next]

CountEveryPage(listing, options) ==
    Walk(listing, Len(listing), 0, 0, 0)

\* countFiles(options) on a folder whose listing Drive serves as listing.
countFiles(listing, options) ==
    Walk(listing,
         IF options.maxPages.kind = "undefined" THEN FILE_COUNT_MAX_PAGES
         ELSE options.maxPages.value,
         0, 0, 0)

\* The listings considered: up to MaxWalk + 1 pages, the last of which carries
\* no nextPageToken (Drive's listing ends).
PageValues ==
    { Page(h, f, n) : h \in {TRUE}, f \in {<<"image/png">>, <<FolderMimeType, "image/png">>},
                      n \in BOOLEAN }
    \cup { Page(FALSE, << >>, n) : n \in BOOLEAN }
    \cup { FailedPage }
Listings ==
    { listing \in UNION { [1 .. n -> PageValues] : n \in 1 .. MaxWalk + 1 } :
          ~listing[Len(listing)].next }
PageBounds == {Undefined} \cup { Num(n) : n \in 1 .. MaxWalk }

\* One countFiles(options).
CountFiles ==
    /\ Unapplied
    /\ \E listing \in Listings, maxPages \in PageBounds :
           /\ invocation' = [fn |-> "countFiles", listing |-> listing,
                             options |-> [maxPages |-> maxPages]]
           /\ outcome' = countFiles(listing, [maxPages |-> maxPages])
    /\ UNCHANGED machine

\* ------------------------------------------- generateServiceAccountAssertion
\* The characters with the codes 32 .. 95 and 97 .. 126, in the order of their
\* codes (the grave accent, 96, occurs in no text considered).
AsciiLow ==
    <<" ", "!", "\"", "#", "$", "%", "&", "'", "(", ")", "*", "+", ",", "-", ".", "/", "0", "1",
      "2", "3", "4", "5", "6", "7", "8", "9", ":", ";", "<", "=", ">", "?", "@", "A", "B", "C",
      "D", "E", "F", "G", "H", "I", "J", "K", "L", "M", "N", "O", "P", "Q", "R", "S", "T", "U",
      "V", "W", "X", "Y", "Z", "[", "\\", "]", "^", "_">>
AsciiHigh ==
    <<"a", "b", "c", "d", "e", "f", "g", "h", "i", "j", "k", "l", "m", "n", "o", "p", "q", "r",
      "s", "t", "u", "v", "w", "x", "y", "z", "{", "|", "}", "~">>

\* String.prototype.charCodeAt for one character.
charCodeAt(char) ==
    IF \E i \in 1 .. Len(AsciiLow) : AsciiLow[i] = char
    THEN 31 + (CHOOSE i \in 1 .. Len(AsciiLow) : AsciiLow[i] = char)
    ELSE 96 + (CHOOSE i \in 1 .. Len(AsciiHigh) : AsciiHigh[i] = char)

\* The alphabet of btoa: the character of the 6-bit value v is Base64Alphabet[v + 1].
Base64Alphabet ==
    <<"A", "B", "C", "D", "E", "F", "G", "H", "I", "J", "K", "L", "M", "N", "O", "P", "Q", "R",
      "S", "T", "U", "V", "W", "X", "Y", "Z", "a", "b", "c", "d", "e", "f", "g", "h", "i", "j",
      "k", "l", "m", "n", "o", "p", "q", "r", "s", "t", "u", "v", "w", "x", "y", "z", "0", "1",
      "2", "3", "4", "5", "6", "7", "8", "9", "+", "/">>

\* Base64 of a sequence of bytes, three bytes to four characters, '=' padding.
RECURSIVE Base64(_)
Base64(bytes) ==
    IF bytes = << >> THEN << >>
    ELSE IF Len(bytes) = 1
    THEN <<Base64Alphabet[(bytes[1] \div 4) + 1],
           Base64Alphabet[((bytes[1] % 4) * 16) + 1], "=", "=">>
    ELSE IF Len(bytes) = 2
    THEN <<Base64Alphabet[(bytes[1] \div 4) + 1],
           Base64Alphabet[((bytes[1] % 4) * 16) + (bytes[2] \div 16) + 1],
           Base64Alphabet[((bytes[2] % 16) * 4) + 1], "=">>
    ELSE <<Base64Alphabet[(bytes[1] \div 4) + 1],
           Base64Alphabet[((bytes[1] % 4) * 16) + (bytes[2] \div 16) + 1],
           Base64Alphabet[((bytes[2] % 16) * 4) + (bytes[3] \div 64) + 1],
           Base64Alphabet[(bytes[3] % 64) + 1]>>
         \o Base64(SubSeq(bytes, 4, Len(bytes)))

\* btoa(text) for a text of characters with codes below 256.
btoa(text) == Base64([i \in 1 .. Len(text) |-> charCodeAt(text[i])])

\* arrayBufferToBase64(buffer): btoa of the string of the bytes' characters.
arrayBufferToBase64(buffer) == Base64(buffer)

\* text.replace(/<from>/g, to) for single characters.
ReplaceAll(text, from, to) ==
    [i \in 1 .. Len(text) |-> IF text[i] = from THEN to ELSE text[i]]

\* text.replace(/=+$/, '')
RECURSIVE StripPadding(_)
StripPadding(text) ==
    IF text # << >> /\ text[Len(text)] = "="
    THEN StripPadding(SubSeq(text, 1, Len(text) - 1)) ELSE text

\* .replace(/\+/g, '-').replace(/\//g, '_').replace(/=+$/, '')
UrlSafe(text) == StripPadding(ReplaceAll(ReplaceAll(text, "+", "-"), "/", "_"))

Base64Standard(input) == btoa(input)

\* base64UrlEncode(input)
base64UrlEncode(input) == UrlSafe(btoa(input))

\* JSON.stringify of a non-negative integer: its decimal digits.
RECURSIVE NumberText(_)
NumberText(n) ==
    LET digit == <<"0", "1", "2", "3", "4", "5", "6", "7", "8", "9">>[(n % 10) + 1]
    IN IF n < 10 THEN <<digit>> ELSE NumberText(n \div 10) \o <<digit>>

\* JSON.stringify of a string of printable characters: in quotes, the quote
\* and the backslash behind a backslash.
RECURSIVE EscapeJson(_)
EscapeJson(text) ==
    IF text = << >> THEN << >>
    ELSE (IF Head(text) \in {"\"", "\\"} THEN <<"\\", Head(text)>> ELSE <<Head(text)>>)
             \o EscapeJson(Tail(text))
QuoteJson(text) == <<"\"">> \o EscapeJson(text) \o <<"\"">>

DRIVE_SCOPE ==
    <<"h", "t", "t", "p", "s", ":", "/", "/", "w", "w", "w", ".", "g", "o", "o", "g", "l", "e",
      "a", "p", "i", "s", ".", "c", "o", "m", "/", "a", "u", "t", "h", "/", "d", "r", "i", "v",
      "e">>
TOKEN_ENDPOINT ==
    <<"h", "t", "t", "p", "s", ":", "/", "/", "o", "a", "u", "t", "h", "2", ".", "g", "o", "o",
      "g", "l", "e", "a", "p", "i", "s", ".", "c", "o", "m", "/", "t", "o", "k", "e", "n">>
AssertionLifetime == 3600

\* JSON.stringify(header)
HeaderJson ==
    <<"{", "\"", "a", "l", "g", "\"", ":", "\"", "R", "S", "2", "5", "6", "\"", ",", "\"", "t",
      "y", "p", "\"", ":", "\"", "J", "W", "T", "\"", "}">>

\* JSON.stringify(payload) for iss = email and iat: the members in the order
\* of the object literal.
PayloadJson(email, iat) ==
    <<"{", "\"", "i", "s", "s", "\"", ":">> \o QuoteJson(email)
    \o <<",", "\"", "s", "c", "o", "p", "e", "\"", ":">> \o QuoteJson(DRIVE_SCOPE)
    \o <<",", "\"", "a", "u", "d", "\"", ":">> \o QuoteJson(TOKEN_ENDPOINT)
    \o <<",", "\"", "e", "x", "p", "\"", ":">> \o NumberText(iat + AssertionLifetime)
    \o <<",", "\"", "i", "a", "t", "\"", ":">> \o NumberText(iat)
    \o <<"}">>

\* sign(input, privateKey): importKey throws on a key that is no PKCS8 key;
\* signature is the bytes crypto.subtle.sign resolves with.
sign(privateKey, signature) ==
    IF privateKey \notin PrivateKeys THEN Threw
    ELSE Built(UrlSafe(arrayBufferToBase64(signature)))

\* generateServiceAccountAssertion(serviceAccount) at time nowMs.
generateServiceAccountAssertion(serviceAccount, nowMs, signature) ==
    LET iat == nowMs \div MsPerSecond
        encHeader == base64UrlEncode(HeaderJson)
        encPayload == base64UrlEncode(PayloadJson(serviceAccount.client_email, iat))
        signed == sign(serviceAccount.private_key, signature)
    IN IF signed.threw
       THEN [fn |-> "generateServiceAccountAssertion", threw |-> TRUE, assertion |-> << >>]
       ELSE [fn |-> "generateServiceAccountAssertion", threw |-> FALSE,
             assertion |-> encHeader \o <<".">> \o encPayload \o <<".">> \o signed.text]

\* The inputs considered: client_email values of three lengths, two of them
\* with a character whose base64 holds '+' or '/', one with a quote; times in
\* ms; signatures of one, two and three bytes.
Emails ==
    { <<"a", "@", "s", "a">>,
      <<"a", "b", "@", "s", "a">>,
      <<"a", "b", "c", "@", "s", "a">>,
      <<"~", "a", "b", "@", "s", "a">>,
      <<"?", "a", "b", "@", "s", "a">>,
      <<"\"", "a", "\"", "@", "s", "a">> }
Times == {0, 999, 1000, 3541000, 2147483000}
Signatures == { <<251>>, <<251, 255>>, <<251, 255, 190>>, <<0, 16, 131>> }

\* One generateServiceAccountAssertion(serviceAccount).
GenerateAssertion ==
    /\ Unapplied
    /\ \E email \in Emails, key \in {"kA", ""}, nowMs \in Times, signature \in Signatures :
           /\ invocation' = [fn |-> "generateServiceAccountAssertion",
                             serviceAccount |-> [client_email |-> email, private_key |-> key],
                             now |-> nowMs, signature |-> signature]
           /\ outcome' = generateServiceAccountAssertion(
                             [client_email |-> email, private_key |-> key], nowMs, signature)
    /\ UNCHANGED machine

FunctionNext ==
    \/ Fetch
    \/ FetchDeployed
    \/ ListFiles
    \/ CountFiles
    \/ GenerateAssertion

\* The deployment does not matter to them.
FunctionInit == Init /\ procEnv = EnvOAuth /\ broken = {}

FunctionSpec == FunctionInit /\ [][FunctionNext]_vars

\* ---------------------------------------------------- Drive calls of a client
\* response.ok
Ok(status) == status \in 200 .. 299

\* What a Drive method gives its caller: a value, or the error it throws with
\* what its message carries.
Returned(status, body, headers) ==
    [kind |-> "value", status |-> status, body |-> body, headers |-> headers]
Thrown(status, body) ==
    [kind |-> "error", status |-> status, body |-> body, headers |-> NoHeaders]

FetchJsonLenient(response) ==
    Returned(0, response.body, NoHeaders)

\* fetchJson after fetchRaw has resolved with response: {} for 204, the error
\* 'Drive request failed: <status> <errorText>' unless response.ok, else the
\* parsed body.
fetchJson(response) ==
    IF response.status = 204 THEN Returned(0, "{}", NoHeaders)
    ELSE IF ~Ok(response.status) THEN Thrown(response.status, response.body)
    ELSE Returned(0, response.body, NoHeaders)

DEFAULT_CACHE_CONTROL == "public, max-age=86400"

StreamFileHeadersKept(request, response) ==
    IF ~Ok(response.status) /\ response.status # 206
    THEN Thrown(response.status, "")
    ELSE Returned(response.status, response.body,
                  [allowOrigin |-> response.allowOrigin,
                   contentDisposition |-> response.contentDisposition,
                   cacheControl |-> response.cacheControl])

\* streamFile(id, rangeHeader, method) after its fetch has resolved with
\* response: the error 'Unable to stream file <id>: <status>', or a Response of
\* the upstream status, body (null for HEAD) and headers, three of them set.
streamFile(request, response) ==
    IF ~Ok(response.status) /\ response.status # 206
    THEN Thrown(response.status, "")
    ELSE Returned(response.status,
                  IF request.method = "HEAD" THEN "" ELSE response.body,
                  [allowOrigin |-> "*",
                   contentDisposition |-> "inline",
                   cacheControl |-> IF response.cacheControl # ""
                                    THEN response.cacheControl
                                    ELSE DEFAULT_CACHE_CONTROL])

\* The Drive methods considered and what they ask for.
DriveRequests ==
    { [fn |-> "getMetadata", method |-> "GET", range |-> ""],
      [fn |-> "deleteFile", method |-> "DELETE", range |-> ""],
      [fn |-> "streamFile", method |-> "GET", range |-> ""],
      [fn |-> "streamFile", method |-> "GET", range |-> "bytes=0-99"],
      [fn |-> "streamFile", method |-> "HEAD", range |-> ""] }

\* What Drive can answer.
DriveResponse(status, cacheControl, contentDisposition, body) ==
    [status |-> status, cacheControl |-> cacheControl, allowOrigin |-> "",
     contentDisposition |-> contentDisposition, body |-> body]
DriveResponses ==
    { DriveResponse(200, "", "attachment", "content"),
      DriveResponse(200, "private, max-age=0", "", "content"),
      DriveResponse(206, "", "attachment", "content"),
      DriveResponse(204, "", "", ""),
      DriveResponse(404, "", "", "File not found"),
      DriveResponse(500, "no-store", "", "Backend Error") }

\* The method of the request streamFile or fetchRaw sends.
OutboundMethod(request) ==
    IF request.fn = "streamFile"
    THEN (IF request.method = "HEAD" THEN "HEAD" ELSE "GET")
    ELSE request.method

\* getAccessToken() of the operation has resolved: fetchRaw, or streamFile,
\* sends its request to Drive with the token as bearer and, for streamFile
\* with a rangeHeader, the Range header.
DriveSend(c, request) ==
    /\ calls[c].pc = "done"
    /\ driveOps[c].pc = "none"
    /\ driveOps' = [driveOps EXCEPT ![c] =
           [@ EXCEPT !.pc = "sent", !.request = request, !.sent = @ + 1,
               !.bearer = calls[c].result, !.method = OutboundMethod(request),
               !.range = request.range]]
    /\ UNCHANGED <<config, broken, bundledServiceAccountsPromise, bundledServiceAccountsCache,
                   clients, calls, now, ticks, mints, urlFetches, resolutions,
                   invocation, outcome, apart>>

\* getAccessToken() of the operation has thrown: the operation throws the same
\* error and no request goes to Drive.
DriveAborted(c) ==
    /\ calls[c].pc = "failed"
    /\ driveOps[c].pc = "none"
    /\ driveOps' = [driveOps EXCEPT ![c] =
           [@ EXCEPT !.pc = "failed", !.result = [Thrown(0, "") EXCEPT !.kind = "tokenError"]]]
    /\ UNCHANGED <<config, broken, bundledServiceAccountsPromise, bundledServiceAccountsCache,
                   clients, calls, now, ticks, mints, urlFetches, resolutions,
                   invocation, outcome, apart>>

\* Drive answers the request of the operation.
DriveSettled(c, response) ==
    /\ driveOps[c].pc = "sent"
    /\ LET op == driveOps[c]
           result == IF op.request.fn = "streamFile"
                     THEN streamFile(op.request, response)
                     ELSE fetchJson(response)
       IN driveOps' = [driveOps EXCEPT ![c] =
              [@ EXCEPT !.pc = IF result.kind = "error" THEN "failed" ELSE "done",
                  !.response = response, !.result = result]]
    /\ UNCHANGED <<config, broken, bundledServiceAccountsPromise, bundledServiceAccountsCache,
                   clients, calls, now, ticks, mints, urlFetches, resolutions,
                   invocation, outcome, apart>>

\* Drive operations of the clients of a deployment configured through the
\* environment.
DriveNext ==
    \/ \E c \in CallIds, k \in ClientIds : WorkerRequest(c, k)
    \/ \E c \in CallIds, k \in ClientIds : StartCall(c, k)
    \/ ImportSettled
    \/ \E c \in CallIds : AfterBundled(c)
    \/ \E c \in CallIds : Select(c)
    \/ \E c \in CallIds, resp \in TokenResponses : MintSettled(c, resp)
    \/ \E c \in CallIds, resp \in TokenResponses : RefreshSettled(c, resp)
    \/ \E c \in CallIds, request \in DriveRequests : DriveSend(c, request)
    \/ \E c \in CallIds : DriveAborted(c)
    \/ \E c \in CallIds, response \in DriveResponses : DriveSettled(c, response)

DriveInit ==
    /\ Init
    /\ bundledFile = NoBundle
    /\ \/ procEnv = EnvNumbered /\ broken = {"kA"}
       \/ procEnv = EnvOAuth /\ broken = {}
       \/ procEnv = EnvOAuth /\ broken = {"refresh_token"}

DriveSpec == DriveInit /\ [][DriveNext]_vars

\* ------------------------------------------------------- usage counters
\* parseInt(text, 10): the number its leading decimal digits write, NaN when
\* it starts with none.
DigitChars == <<"0", "1", "2", "3", "4", "5", "6", "7", "8", "9">>
IsDigit(ch) == \E d \in 1 .. 10 : DigitChars[d] = ch
DigitValue(ch) == (CHOOSE d \in 1 .. 10 : DigitChars[d] = ch) - 1
RECURSIVE DigitsValue(_, _)
DigitsValue(text, sofar) ==
    IF text = << >> \/ ~IsDigit(Head(text)) THEN sofar
    ELSE DigitsValue(Tail(text), 10 * sofar + DigitValue(Head(text)))
parseInt(text) ==
    IF text = << >> \/ ~IsDigit(Head(text)) THEN NaN ELSE Num(DigitsValue(text, 0))

\* String(parseInt(current || '0', 10) + 1)
Incremented(current) ==
    LET parsed == parseInt(IF current.present /\ current.value # << >>
                           THEN current.value ELSE <<"0">>)
    IN IF parsed = NaN THEN <<"N", "a", "N">> ELSE NumberText(parsed.value + 1)

\* trackUpload, trackFileRequest, trackDelete up to their first await: the key
\* is chosen and env.STATS.get(key) is under way.
Track(e, key) ==
    /\ trackers[e].pc = "idle"
    /\ \A d \in TrackerIds : d < e => trackers[d].pc # "idle"
    /\ trackers' = [trackers EXCEPT ![e] = [@ EXCEPT !.pc = "get", !.key = key]]
    /\ UNCHANGED <<worker, STATS, dashboard>>

trackUpload(e) == Track(e, "total_uploads")
trackFileRequest(e) == Track(e, "total_file_requests")
trackDelete(e) == Track(e, "total_deletes")

\* env.STATS.get(key) resolves with the value the store holds, and
\* env.STATS.put(key, String(parseInt(current || '0', 10) + 1)) starts.
StatsGetSettled(e) ==
    /\ trackers[e].pc = "get"
    /\ trackers' = [trackers EXCEPT ![e] =
           [@ EXCEPT !.pc = "put", !.current = STATS[trackers[e].key]]]
    /\ UNCHANGED <<worker, STATS, dashboard>>

\* The put takes effect and resolves: the tracking call is over.
StatsPutSettled(e) ==
    /\ trackers[e].pc = "put"
    /\ STATS' = [STATS EXCEPT ![trackers[e].key] = Value(Incremented(trackers[e].current))]
    /\ trackers' = [trackers EXCEPT ![e] = [@ EXCEPT !.pc = "done"]]
    /\ UNCHANGED <<worker, dashboard>>

StatsNext ==
    \/ \E e \in TrackerIds : trackUpload(e)
    \/ \E e \in TrackerIds : trackFileRequest(e)
    \/ \E e \in TrackerIds : trackDelete(e)
    \/ \E e \in TrackerIds : StatsGetSettled(e)
    \/ \E e \in TrackerIds : StatsPutSettled(e)

\* The deployment's credentials do not matter to the counters.
StatsInit == Fresh /\ procEnv = EnvOAuth /\ bundledFile = NoBundle /\ broken = {}

StatsSpec == StatsInit /\ [][StatsNext]_vars

\* ------------------------------------------------- dashboard page script
\* fetchFiles({ reset, force }) up to its await: nothing when a request is in
\* flight (unless forced) or when there is no further page to ask for;
\* otherwise the lists are cleared on reset and the request leaves with the
\* current search term and type.
fetchFiles(page, reset, force) ==
    IF page.isLoadingFiles /\ ~force THEN page
    ELSE IF ~reset /\ ~page.nextPageToken THEN page
    ELSE [page EXCEPT
             !.isLoadingFiles = TRUE,
             !.cdnFiles = IF reset THEN {} ELSE @,
             !.filteredFiles = IF reset THEN {} ELSE @,
             !.nextPageToken = IF reset THEN FALSE ELSE @,
             !.request = [inFlight |-> TRUE, search |-> page.currentSearch,
                          type |-> page.currentFilter, reset |-> reset]]

\* scheduleFilesFetch(true): the list shown is emptied and the timer is set
\* anew (a pending one is cleared).
scheduleFilesFetch(page) ==
    [page EXCEPT !.filteredFiles = {},
                 !.searchDebounce = [pending |-> TRUE, reset |-> TRUE]]

\* init(): fetchFiles({ reset: true, force: true })
PageInit ==
    /\ ~dashboard.started
    /\ dashboard' = fetchFiles([dashboard EXCEPT !.started = TRUE], TRUE, TRUE)
    /\ UNCHANGED <<worker, STATS, trackers>>

\* The visitor types in the search box.
handleAssetSearch(term) ==
    /\ dashboard.started
    /\ dashboard' = scheduleFilesFetch([dashboard EXCEPT !.currentSearch = term])
    /\ UNCHANGED <<worker, STATS, trackers>>

\* The visitor clicks a filter pill; the pills are disabled while a filter
\* fetch is pending.
handleFilterChange(type) ==
    /\ dashboard.started
    /\ ~dashboard.isFilterFetchPending
    /\ dashboard' = scheduleFilesFetch([dashboard EXCEPT !.currentFilter = type,
                                                          !.isFilterFetchPending = TRUE])
    /\ UNCHANGED <<worker, STATS, trackers>>

\* The 350 ms timer fires: fetchFiles({ reset }).
DebounceFires ==
    /\ dashboard.searchDebounce.pending
    /\ dashboard' = fetchFiles([dashboard EXCEPT !.searchDebounce.pending = FALSE],
                               dashboard.searchDebounce.reset, FALSE)
    /\ UNCHANGED <<worker, STATS, trackers>>

\* The visitor clicks "load more": fetchFiles().
LoadMoreClicked ==
    /\ dashboard.started
    /\ dashboard.loadMoreShown
    /\ dashboard' = fetchFiles(dashboard, FALSE, FALSE)
    /\ UNCHANGED <<worker, STATS, trackers>>

\* The request of fetchFiles settles.  On success the page's files replace
\* (reset) or extend cdnFiles, and applyLocalFilters() shows of cdnFiles the
\* files of the current type; on failure the lists stay.  The finally block
\* ends the loading states either way.
FilesResponse(ok, hasNext) ==
    LET request == dashboard.request
        asked == [search |-> request.search, type |-> request.type]
        files == IF request.reset THEN {asked} ELSE dashboard.cdnFiles \cup {asked}
    IN /\ request.inFlight
       /\ dashboard' =
              [dashboard EXCEPT
                  !.nextPageToken = IF ok THEN hasNext ELSE @,
                  !.cdnFiles = IF ok THEN files ELSE @,
                  !.filteredFiles = IF ok THEN files ELSE @,
                  !.loadMoreShown = ok /\ hasNext,
                  !.isLoadingFiles = FALSE,
                  !.isFilterFetchPending = FALSE,
                  !.request = NoFilesRequest]
       /\ UNCHANGED <<worker, STATS, trackers>>

SearchTerms == {"", "cat"}
FilterTypes == {"all", "images"}

PageNext ==
    \/ PageInit
    \/ \E term \in SearchTerms : handleAssetSearch(term)
    \/ \E type \in FilterTypes : handleFilterChange(type)
    \/ DebounceFires
    \/ LoadMoreClicked
    \/ \E ok \in BOOLEAN, hasNext \in BOOLEAN : FilesResponse(ok, hasNext)

PageLoaded == Fresh /\ procEnv = EnvOAuth /\ bundledFile = NoBundle /\ broken = {}

PageSpec == PageLoaded /\ [][PageNext]_vars
\* Credential sets whose records map to one key of cachedTokens
\* (serviceAccount.client_email || 'default'): the same client_email twice,
\* or no client_email at all.  In each the first record's key is rejected.
EnvSameEmail == MkEnv(FALSE, << >>, <<Json(saA), Json(saRekeyed)>>, Unset, FALSE)
EnvNoEmail == MkEnv(FALSE, <<Json(saAnonA), Json(saAnonB)>>, << >>, Unset, FALSE)

SharedKeyInit ==
    /\ \/ procEnv = EnvSameEmail
       \/ procEnv = EnvNoEmail
    /\ bundledFile = NoBundle
    /\ broken = {"kA"}
    /\ Fresh

SharedKeyNext ==
    \/ \E c \in CallIds, k \in ClientIds : WorkerRequest(c, k)
    \/ \E c \in CallIds, k \in ClientIds : StartCall(c, k)
    \/ ImportSettled
    \/ \E c \in CallIds : AfterBundled(c)
    \/ \E c \in CallIds : Select(c)
    \/ \E c \in CallIds, resp \in TokenResponses : MintSettled(c, resp)
    \/ \E d \in TickSteps : Tick(d)

SharedKeySpec == SharedKeyInit /\ [][SharedKeyNext]_vars

\* ------------------------------------- overlapping calls, one bad identity
\* Select on a client with service accounts, leaving out the history fields
\* (mints, attempts, tried) and numbering every exchange 1, so that a retry
\* chain that comes back to the same cursor comes back to the same state.
Reselect(c) ==
    LET k == calls[c].client
        cl == clients[k]
        sa == getCurrentServiceAccount(cl.serviceAccounts, cl.currentServiceAccountIndex)
        branch == Branch(cl, now)
    IN /\ calls[c].pc = "loaded"
       /\ \/ /\ branch = "cachedAccount"
             /\ calls' = [calls EXCEPT ![c] =
                    ReturnCached(calls[c], cl, cl.cachedTokens[AccountKey(sa)])]
          \/ /\ branch = "mintAccount"
             /\ calls' = [calls EXCEPT ![c] =
                    [@ EXCEPT !.pc = "minting", !.serviceAccount = sa,
                        !.accountKey = AccountKey(sa), !.exchange = 1]]
       /\ UNCHANGED <<config, beside, broken, bundledServiceAccountsPromise,
                      bundledServiceAccountsCache, clients, now, ticks, mints,
                      urlFetches, resolutions>>

\* A set of two or three records of which exactly one is rejected, for good.
OneBadInit ==
    /\ \/ procEnv = EnvNumbered /\ broken = {"kA"}
       \/ procEnv = EnvNumbered /\ broken = {"kB"}
       \/ procEnv = EnvJoined /\ broken = {"kB"}
    /\ bundledFile = NoBundle
    /\ Fresh

OneBadNext ==
    \/ \E c \in CallIds, k \in ClientIds : WorkerRequest(c, k)
    \/ \E c \in CallIds, k \in ClientIds : StartCall(c, k)
    \/ ImportSettled
    \/ \E c \in CallIds : AfterBundled(c)
    \/ \E c \in CallIds : Reselect(c)
    \/ \E c \in CallIds, resp \in TokenResponses : MintSettled(c, resp)

\* Every continuation whose awaited promise has settled is run by the event
\* loop, and the token endpoint answers every exchange: each step of a call
\* that stays possible is taken.
OneBadFairness ==
    /\ WF_vars(ImportSettled)
    /\ \A c \in CallIds :
          /\ WF_vars(AfterBundled(c))
          /\ WF_vars(Reselect(c))
          /\ WF_vars(\E resp \in TokenResponses : MintSettled(c, resp))

OneBadSpec == OneBadInit /\ [][OneBadNext]_vars /\ OneBadFairness



\* ================================================================ claims
ClientOf(c) == clients[calls[c].client]
AccountsOf(c) == ClientOf(c).serviceAccounts
Started(c) == calls[c].pc # "idle"

\* The private keys of a credential set, and how often key appears in a
\* sequence of attempts.
KeysOf(accounts) == { accounts[i].private_key : i \in 1 .. Len(accounts) }
Occurrences(seq, key) == Cardinality({ i \in 1 .. Len(seq) : seq[i] = key })

\* The validity rule of the specification, written out: an entry minted at
\* time T with lifetime L seconds is usable at time t iff t + 60000 < T + L*1000.
UsableAt(expiresAt, t) == t + 60000 < expiresAt

\* C1 (stated as claimed; the code violates it): per getAccessToken()
\* invocation on a credential set of size N, at most N service-account mint
\* attempts are made, whatever identities fail.
C1_AtMostNAttempts ==
    \A c \in CallIds :
        Started(c) /\ ClientOf(c).accountsLoaded =>
            calls[c].attempts <= Len(AccountsOf(c))

\* C2 (stated as claimed; the code violates it): when every identity of the
\* credential set fails, getAccessToken() never makes more than N mint
\* attempts, never succeeds, and when it fails it has made exactly N.
C2_AllFailExactlyN ==
    \A c \in CallIds :
        Started(c) /\ ClientOf(c).accountsLoaded /\ Len(AccountsOf(c)) >= 1
            /\ KeysOf(AccountsOf(c)) \subseteq calls[c].health =>
                /\ calls[c].attempts <= Len(AccountsOf(c))
                /\ calls[c].pc # "done"
                /\ calls[c].pc = "failed" => calls[c].attempts = Len(AccountsOf(c))

\* Exactly one identity of the call's credential set was failing during call c.
OneFailing(c) ==
    /\ Started(c)
    /\ ClientOf(c).accountsLoaded
    /\ Len(AccountsOf(c)) >= 2
    /\ Cardinality(KeysOf(AccountsOf(c)) \cap calls[c].health) = 1

\* C3: with N >= 2 identities of which exactly one fails permanently, and any
\* starting cursor, a getAccessToken() call run alone never fails, makes at
\* most N mint attempts, attempts the failing identity at most once, and any
\* mint in flight after the failing identity was attempted is on a healthy one.
C3_OneFailingIdentity ==
    \A c \in CallIds :
        OneFailing(c) =>
            /\ calls[c].pc # "failed"
            /\ calls[c].attempts <= Len(AccountsOf(c))
            /\ \A key \in calls[c].health : Occurrences(calls[c].tried, key) <= 1
            /\ calls[c].pc = "minting" /\ calls[c].attempts >= 2 =>
                   calls[c].serviceAccount.private_key \notin calls[c].health

\* C3 witness: a call that started with the cursor on the failing identity at
\* the last index (N = 2, cursor 1), attempted it once, wrapped around to
\* index 0 and returned the healthy identity's token.
C3_Witness ==
    \E c \in CallIds :
        /\ OneFailing(c)
        /\ calls[c].pc = "done"
        /\ calls[c].startCursor = Len(AccountsOf(c)) - 1
        /\ calls[c].attempts = 2
        /\ calls[c].tried[1] \in calls[c].health
        /\ calls[c].result.key \notin calls[c].health
        /\ ClientOf(c).currentServiceAccountIndex = 0

\* C4 (stated as claimed; the code violates it): whenever a client's
\* credential set is non-empty, 0 <= currentServiceAccountIndex < length.
C4_CursorInRange ==
    \A k \in ClientIds :
        clients[k].exists /\ Len(clients[k].serviceAccounts) > 0 =>
            /\ clients[k].currentServiceAccountIndex >= 0
            /\ clients[k].currentServiceAccountIndex < Len(clients[k].serviceAccounts)

\* Call c returns in this step.
Returns(c) == calls[c].pc # "done" /\ calls'[c].pc = "done"

\* C5 (stated as claimed; refuted): every token getAccessToken() returns,
\* cached or freshly minted, expires more than 60000 ms after the return.
C5_NeverSoonToExpire ==
    [][\A c \in CallIds :
          Returns(c) => calls'[c].resultExpiresAt > now + 60000]_vars

\* The lifetime in seconds the code uses for a token response: expires_in,
\* or 3600 when expires_in is omitted or 0.
EffectiveLifetime(reported) ==
    IF reported.has_expires_in /\ reported.expires_in > 0
    THEN reported.expires_in ELSE 3600

\* C5 (amended): a token returned from the cache expires more than 60000 ms
\* after the return; a freshly minted token is returned whatever its
\* lifetime, its expiry being the time of the mint plus the lifetime, so it
\* is more than 60000 ms away exactly when the lifetime exceeds 60 seconds.
C5_CachedNeverSoonToExpire ==
    [][\A c \in CallIds :
          Returns(c) =>
              LET call == calls'[c]
                  entry == clients'[call.client].cachedTokens[calls[c].accountKey]
              IN IF call.hit
                 THEN call.resultExpiresAt > now + 60000
                 ELSE /\ call.resultExpiresAt
                            = now + EffectiveLifetime(entry.reported) * 1000
                      /\ (call.resultExpiresAt > now + 60000)
                            <=> (EffectiveLifetime(entry.reported) > 60)]_vars

\* C5 witness: a call has returned a token from the cache after time passed.
C5_Witness ==
    \E c \in CallIds :
        /\ calls[c].pc = "done"
        /\ calls[c].hit
        /\ now > 0
        /\ calls[c].resultExpiresAt > now + 60000


\* C6 (stated as claimed; refuted): every cache entry written by a mint at
\* time T carries the expiry T + L*1000, where L is the reported expires_in,
\* and 3600 only when the endpoint omitted it.
C6_ExpiryAsReported ==
    \A k \in ClientIds, key \in CacheKeys :
        LET entry == clients[k].cachedTokens[key]
        IN entry.present =>
               entry.expiresAt
                   = entry.mintedAt
                       + (IF entry.reported.has_expires_in
                          THEN entry.reported.expires_in ELSE 3600) * 1000

\* The expiry the amended claim gives an entry: T + L*1000.
ClaimedExpiry(entry) == entry.mintedAt + EffectiveLifetime(entry.reported) * 1000

\* C6 (amended): a token minted at time T with lifetime L seconds, where L is
\* 3600 when the endpoint omits expires_in or reports 0, is stored with expiry
\* T + L*1000 on both paths, and is served from the cache at time now if and
\* only if now + 60000 < T + L*1000: a call that returns a cached token returns
\* one for which the rule holds at that moment, and a call that starts an
\* exchange for an identity does so only when no entry of that identity
\* satisfies the rule.
C6_ExpiryAndMargin ==
    [][\A c \in CallIds :
          LET k == calls'[c].client
              key == calls'[c].accountKey
          IN /\ calls[c].pc \in {"minting", "refreshing"} /\ Returns(c) =>
                    /\ clients'[k].cachedTokens[calls[c].accountKey].mintedAt = now
                    /\ clients'[k].cachedTokens[calls[c].accountKey].expiresAt
                          = ClaimedExpiry(clients'[k].cachedTokens[calls[c].accountKey])
             /\ calls[c].pc = "loaded" /\ Returns(c) =>
                    \E id \in CacheKeys :
                        /\ clients[k].cachedTokens[id].present
                        /\ clients[k].cachedTokens[id].token = calls'[c].result
                        /\ UsableAt(ClaimedExpiry(clients[k].cachedTokens[id]), now)
             /\ calls[c].pc = "loaded" /\ calls'[c].pc \in {"minting", "refreshing"} =>
                    \/ ~clients[k].cachedTokens[key].present
                    \/ ~UsableAt(ClaimedExpiry(clients[k].cachedTokens[key]), now)]_vars

\* C6 witness: a token minted with the default lifetime (expires_in omitted,
\* expiry T + 3600 s) has been served from the cache 61 seconds before its
\* expiry, at T + L - 61 s.
C6_WitnessValid ==
    \E c \in CallIds :
        /\ calls[c].pc = "done"
        /\ calls[c].hit
        /\ calls[c].resultExpiresAt - now = 61000
        /\ \E key \in CacheKeys :
               /\ ClientOf(c).cachedTokens[key].token = calls[c].result
               /\ ~ClientOf(c).cachedTokens[key].reported.has_expires_in


\* The scenario of C7 for call c: credential set [A, B], cursor 0 and an empty
\* cache when c is invoked, A's mint failing and B's succeeding.
ScenarioAB(c) ==
    /\ Started(c)
    /\ ClientOf(c).accountsLoaded
    /\ AccountsOf(c) = <<saA, saB>>
    /\ calls[c].startCursor = 0
    /\ calls[c].startFresh
    /\ calls[c].health \cap {"kA", "kB"} = {"kA"}

\* Call d is the next getAccessToken() on the client of call c.
Following(c, d) ==
    /\ d > c
    /\ Started(d)
    /\ calls[d].client = calls[c].client
    /\ \A e \in CallIds : c < e /\ e < d => calls[e].client # calls[c].client

\* C7: in the scenario [A fails, B succeeds] with cursor 0, getAccessToken()
\* attempts A once, then B, returns B's token and leaves the cursor at 1; the
\* following getAccessToken() on the same client starts at cursor 1 and, while
\* B's token is still valid, returns the identical token with no exchange and
\* no attempt on A.
C7_FailoverThenCacheHit ==
    \A c \in CallIds :
        ScenarioAB(c) =>
            /\ calls[c].tried \in { << >>, <<"kA">>, <<"kA", "kB">> }
            /\ calls[c].pc # "failed"
            /\ calls[c].pc = "done" =>
                   /\ ~calls[c].hit
                   /\ calls[c].result.key = "kB"
                   /\ calls[c].tried = <<"kA", "kB">>
                   /\ (\A d \in CallIds : ~Following(c, d)) =>
                          ClientOf(c).currentServiceAccountIndex = 1
            /\ \A d \in CallIds :
                   Following(c, d) =>
                       /\ calls[d].startCursor = 1
                       /\ UsableAt(calls[c].resultExpiresAt, now) =>
                              /\ calls[d].pc \in {"loaded", "done"}
                              /\ calls[d].attempts = 0
                              /\ calls[d].pc = "done" =>
                                     calls[d].hit /\ calls[d].result = calls[c].result

\* C7 witness: the first call failed over from A to B, time has passed, and
\* the following call has returned the identical token from the cache.
C7_Witness ==
    \E c, d \in CallIds :
        /\ ScenarioAB(c)
        /\ calls[c].pc = "done"
        /\ Following(c, d)
        /\ calls[d].pc = "done"
        /\ calls[d].result = calls[c].result
        /\ calls[d].attempts = 0
        /\ now > 0

\* The cache entry of the identity call c is exchanging a token for.
EntryOf(c) == ClientOf(c).cachedTokens[calls[c].accountKey]

\* C8: over sequential getAccessToken() calls on a client, an exchange with
\* the token endpoint is in flight for an identity only if the cache holds no
\* entry for it that is valid under the 60-second margin (so while a valid
\* entry exists every call returns it, also after a rotation), and a call
\* that returned a cached token made no attempt for that identity.
C8_MintOnlyWhenInvalid ==
    \A c \in CallIds :
        /\ calls[c].pc \in {"minting", "refreshing"} =>
               \/ ~EntryOf(c).present
               \/ EntryOf(c).expiresAt <= now + 60000
        /\ calls[c].pc = "done" /\ calls[c].hit =>
               Occurrences(calls[c].tried, calls[c].result.key) = 0

\* C8 witness: after a rotation (the call before it failed over), a call has
\* returned the cached token of the identity the cursor moved to.
C8_Witness ==
    \E c, d \in CallIds :
        /\ Following(c, d)
        /\ calls[c].pc = "done"
        /\ calls[c].attempts >= 2
        /\ calls[d].pc = "done"
        /\ calls[d].hit
        /\ calls[d].startCursor > 0

\* C9 (stated as claimed; the code violates it): the cache and the cursor are
\* process-wide: no call starts an exchange for an identity while another
\* client of the process holds a valid token for it, and a request's client
\* starts at the cursor the clients before it have reached.
C9_ProcessWideState ==
    [][\A c \in CallIds :
          /\ (calls[c].pc = "loaded" /\ calls'[c].pc = "minting") =>
                 ~\E j \in ClientIds :
                     /\ j # calls[c].client
                     /\ clients[j].cachedTokens[calls'[c].accountKey].present
                     /\ UsableAt(clients[j].cachedTokens[calls'[c].accountKey].expiresAt, now)
          /\ (calls[c].pc = "idle" /\ Started(c)') =>
                 \A j \in ClientIds :
                     clients[j].exists /\ clients[j].accountsLoaded =>
                         calls'[c].startCursor >= clients[j].currentServiceAccountIndex]_vars

\* C10 (stated as claimed; the code violates it): credential resolution runs
\* at most once per process, SERVICE_ACCOUNTS_URL is fetched at most once, and
\* all clients that have resolved hold the same credential set.
C10_ResolvedOnce ==
    /\ resolutions <= 1
    /\ urlFetches <= 1
    /\ \A j, k \in ClientIds :
           clients[j].accountsLoaded /\ clients[k].accountsLoaded =>
               clients[j].serviceAccounts = clients[k].serviceAccounts

\* C11 (stated as claimed; the code violates it): the credential set is
\* write-once: once a client's accountsLoaded is true its serviceAccounts
\* never changes again, whatever loadServiceAccounts() calls finish later.
C11_WriteOnce ==
    [][\A k \in ClientIds :
          clients[k].accountsLoaded =>
              clients'[k].serviceAccounts = clients[k].serviceAccounts]_vars

\* Both a bundled collection with accounts and a remote URL are configured.
BundledAndUrl ==
    /\ bundledFile.present
    /\ bundledFile.hasAccounts
    /\ Len(bundledFile.accounts) > 0
    /\ procEnv.SERVICE_ACCOUNTS_URL

\* C12: when both a bundled collection with accounts and a remote URL are
\* configured, the URL is never fetched (no call ever waits for it), and every
\* client that completed resolution holds exactly the bundled accounts, not
\* the records of the environment variables or the legacy variable.
C12_BundledWins ==
    BundledAndUrl =>
        /\ urlFetches = 0
        /\ \A c \in CallIds : calls[c].pc # "awaitFetch"
        /\ \A k \in ClientIds :
               clients[k].accountsLoaded =>
                   clients[k].serviceAccounts = bundledFile.accounts

\* C12 witness: with both configured, a client whose env carries the URL and
\* an environment list has resolved and a call on it has returned a token of
\* a bundled account.
C12_Witness ==
    /\ BundledAndUrl
    /\ \E c \in CallIds :
           /\ calls[c].pc = "done"
           /\ ClientOf(c).env.SERVICE_ACCOUNTS_URL
           /\ Len(ClientOf(c).env.GDRIVE_SERVICE_ACCOUNTS) > 0
           /\ ClientOf(c).serviceAccounts = bundledFile.accounts
           /\ calls[c].result.key \in KeysOf(bundledFile.accounts)

\* C13 (stated as claimed; the code violates it): bundled data that is
\* present with an empty accounts array does not stop resolution: a client
\* with SERVICE_ACCOUNTS_URL completes resolution only after fetching the
\* URL, and a client without it holds the records of the environment values,
\* or else the legacy record.
C13_EmptyBundledContinues ==
    bundledFile.present /\ bundledFile.hasAccounts /\ Len(bundledFile.accounts) = 0 =>
        \A k \in ClientIds :
            clients[k].accountsLoaded =>
                IF clients[k].env.SERVICE_ACCOUNTS_URL
                THEN urlFetches >= 1
                ELSE clients[k].serviceAccounts = EnvironmentAccounts(clients[k].env)

\* C14 (stated as claimed; the code violates it): when the environment
\* defines SERVICE_ACCOUNTS_URL and there is no bundled collection, every
\* resolution goes on from the bundled step to a fetch of the URL, and a
\* client that has completed resolution carries the URL in its env.
C14_WorkerFetchesUrl ==
    [][procEnv.SERVICE_ACCOUNTS_URL /\ ~bundledFile.present =>
          \A c \in CallIds :
              calls[c].pc = "awaitBundled" /\ calls'[c].pc # "awaitBundled" =>
                  /\ calls'[c].pc = "awaitFetch"
                  /\ urlFetches' = urlFetches + 1
                  /\ clients[calls[c].client].env.SERVICE_ACCOUNTS_URL]_vars

\* The client resolves from the environment values: no usable bundled data
\* and no remote URL in its env.
ResolvesFromEnvironment(k) ==
    /\ clients[k].accountsLoaded
    /\ ~BundledUsable(bundledFile)
    /\ ~clients[k].env.SERVICE_ACCOUNTS_URL

\* The record rec is part of the client's credential set.
InSet(k, rec) ==
    \E j \in 1 .. Len(clients[k].serviceAccounts) : clients[k].serviceAccounts[j] = rec

\* C15 (stated as claimed; the code violates it): resolution never fails (no
\* call ends with an error other than those of getAccessToken itself), and
\* every well-formed piece of GDRIVE_SERVICE_ACCOUNTS is in the credential
\* set, wherever a malformed piece stands.
C15_KeepsEveryValidBlob ==
    /\ \A c \in CallIds : calls[c].error \in {"", "noAuth", "mint", "refresh"}
    /\ \A k \in ClientIds :
           ResolvesFromEnvironment(k) =>
               \A i \in 1 .. Len(clients[k].env.GDRIVE_SERVICE_ACCOUNTS) :
                   clients[k].env.GDRIVE_SERVICE_ACCOUNTS[i].kind = "json" =>
                       InSet(k, clients[k].env.GDRIVE_SERVICE_ACCOUNTS[i].value)

\* C16 (stated as claimed; the code violates it): every numbered variable
\* GDRIVE_SERVICE_ACCOUNT_<i> holding valid JSON is in the credential set,
\* whatever gaps the numbering has, in increasing index order and after the
\* records of the delimiter-joined value.
C16_NumberedDespiteGaps ==
    \A k \in ClientIds :
        ResolvesFromEnvironment(k) =>
            LET numbered == clients[k].env.NUMBERED
                set == clients[k].serviceAccounts
                fromJoined == Len(ParseJoined(clients[k].env.GDRIVE_SERVICE_ACCOUNTS, << >>))
            IN \A i \in 1 .. Len(numbered) :
                   numbered[i].kind = "json" =>
                       \E p \in 1 .. Len(set) :
                           /\ set[p] = numbered[i].value
                           /\ p > fromJoined
                           /\ \A h \in 1 .. (i - 1) :
                                  numbered[h].kind = "json" =>
                                      \E q \in 1 .. (p - 1) : set[q] = numbered[h].value

\* C17 (stated as claimed; the code violates it): after resolution every
\* record of the credential set has both client_email and private_key.
C17_RecordsComplete ==
    \A k \in ClientIds :
        clients[k].accountsLoaded =>
            \A j \in 1 .. Len(clients[k].serviceAccounts) :
                /\ clients[k].serviceAccounts[j].client_email # ""
                /\ clients[k].serviceAccounts[j].private_key # ""

\* What the bundled, remote and numbered/aggregated methods yield for a
\* client without SERVICE_ACCOUNTS_URL.
EarlierMethodsYield(k) ==
    IF bundledFile.present /\ bundledFile.hasAccounts /\ Len(bundledFile.accounts) > 0
    THEN bundledFile.accounts
    ELSE parseServiceAccounts(clients[k].env)

\* C18 (stated as claimed; the code violates it): the legacy variable
\* GDRIVE_SERVICE_ACCOUNT contributes its record if and only if the earlier
\* methods yielded no credentials and its value parses as JSON; otherwise the
\* set is what the earlier methods yielded (empty for an unparsable legacy
\* value), and resolution does not fail.
C18_LegacyIffNothingElse ==
    \A k \in ClientIds :
        clients[k].accountsLoaded /\ ~clients[k].env.SERVICE_ACCOUNTS_URL =>
            clients[k].serviceAccounts =
                IF Len(EarlierMethodsYield(k)) = 0
                       /\ clients[k].env.GDRIVE_SERVICE_ACCOUNT.kind = "json"
                THEN <<clients[k].env.GDRIVE_SERVICE_ACCOUNT.value>>
                ELSE EarlierMethodsYield(k)

\* All three OAuth inputs of the client are present.
OAuthConfigured(k) ==
    /\ clients[k].env.GOOGLE_CLIENT_ID
    /\ clients[k].env.GOOGLE_CLIENT_SECRET
    /\ clients[k].env.GOOGLE_REFRESH_TOKEN

\* C19: when getAccessToken() goes on after resolution with an empty
\* credential set, it takes the OAuth path under the cache key 'oauth': with
\* all three inputs it returns the valid 'oauth' entry or starts the refresh
\* exchange, whose token is stored under 'oauth' only; with any input absent
\* it fails with the no-authentication-method error, no exchange is started
\* and the client (cache and cursor) is unchanged.
C19_OAuthFallback ==
    [][\A c \in CallIds :
          LET k == calls[c].client
          IN /\ (/\ calls[c].pc = "loaded"
                 /\ calls'[c] # calls[c]
                 /\ Len(clients[k].serviceAccounts) = 0) =>
                    IF OAuthConfigured(k)
                    THEN \/ /\ calls'[c].pc = "done"
                            /\ calls'[c].hit
                            /\ calls'[c].result = clients[k].cachedTokens["oauth"].token
                            /\ UsableAt(clients[k].cachedTokens["oauth"].expiresAt, now)
                            /\ mints' = mints
                         \/ /\ calls'[c].pc = "refreshing"
                            /\ calls'[c].accountKey = "oauth"
                            /\ calls'[c].attempts = calls[c].attempts
                    ELSE /\ calls'[c].pc = "failed"
                         /\ calls'[c].error = "noAuth"
                         /\ mints' = mints
                         /\ clients' = clients
             /\ (calls[c].pc = "refreshing" /\ Returns(c)) =>
                    /\ clients'[k].cachedTokens["oauth"].token = calls'[c].result
                    /\ \A key \in CacheKeys \ {"oauth"} :
                           clients'[k].cachedTokens[key] = clients[k].cachedTokens[key]
                    /\ clients'[k].currentServiceAccountIndex
                           = clients[k].currentServiceAccountIndex]_vars

\* C19 witness: with client id and secret present but no refresh token, a
\* call on a client with an empty credential set has failed with the
\* no-authentication-method error and no exchange was ever started.
C19_Witness ==
    \E c \in CallIds :
        /\ calls[c].pc = "failed"
        /\ calls[c].error = "noAuth"
        /\ ClientOf(c).accountsLoaded
        /\ Len(AccountsOf(c)) = 0
        /\ ClientOf(c).env.GOOGLE_CLIENT_ID
        /\ ~ClientOf(c).env.GOOGLE_REFRESH_TOKEN
        /\ ClientOf(c).cachedTokens = EmptyCache
        /\ mints = 0

\* C20: with a credential set of exactly one service account, a mint that
\* does not yield a token ends the call with the mint's error after exactly
\* one attempt: no further exchange is started (no retry, no OAuth refresh
\* even with the OAuth inputs configured), the cursor stays 0 and the cache is
\* unchanged; a failed call takes no further step.
C20_SingleAccountFailure ==
    [][\A c \in CallIds :
          LET k == calls[c].client
          IN /\ (/\ calls[c].pc = "minting"
                 /\ calls'[c].pc \notin {"minting", "done"}
                 /\ Len(clients[k].serviceAccounts) = 1) =>
                    /\ calls'[c].pc = "failed"
                    /\ calls'[c].error = "mint"
                    /\ calls'[c].attempts = 1
                    /\ calls'[c].tried = <<clients[k].serviceAccounts[1].private_key>>
                    /\ mints' = mints
                    /\ clients'[k].currentServiceAccountIndex = 0
                    /\ clients'[k].cachedTokens = clients[k].cachedTokens
             /\ calls[c].pc = "failed" => calls'[c] = calls[c]]_vars

\* C20 witness: on a client with all OAuth inputs configured and a single
\* service account whose mint is rejected, a call has failed with the mint's
\* error after one attempt, the only exchange of the process.
C20_Witness ==
    \E c \in CallIds :
        /\ calls[c].pc = "failed"
        /\ calls[c].error = "mint"
        /\ Len(AccountsOf(c)) = 1
        /\ AccountsOf(c)[1].private_key \in broken
        /\ OAuthConfigured(calls[c].client)
        /\ calls[c].attempts = 1
        /\ mints = 1
        /\ ClientOf(c).currentServiceAccountIndex = 0
        /\ ClientOf(c).cachedTokens = EmptyCache

\* The request asks for one of the operations that need a token: multipart
\* upload, resumable-session creation, metadata lookup, delete.
ProtectedOperations ==
    {"uploadMultipart", "createResumableSession", "getMetadata", "deleteFile"}

\* The invocation is a request to the worker.
Fetched == invocation.fn = "fetch"

\* The request presents the token s1 (as bearer credentials in either case
\* of the scheme, or as x-api-key when the authorization header is not a
\* bearer one) and s1 is one of the configured tokens: of the requests
\* considered, those are the ones that pass isAuthorized.
PresentsS1 ==
    \/ /\ invocation.request.authorization.present
       /\ invocation.request.authorization.value \in {<<"B", "e", "a", "r", "e", "r", " ", "s", "1">>, <<"b", "e", "a", "r", "e", "r", " ", "s", "1", " ">>}
    \/ /\ invocation.request.xApiKey.present
       /\ invocation.request.xApiKey.value = <<"s", "1">>
       /\ \/ ~invocation.request.authorization.present
          \/ invocation.request.authorization.value = <<"B", "a", "s", "i", "c", " ", "s", "1">>

PassesIsAuthorized ==
    /\ PresentsS1
    /\ invocation.allowedTokens \in {<<<<"s", "1">>>>, <<<<" ", "s", "1", " ">>, <<"s", "2">>>>}

\* C21: the protected Drive operations are called only for requests that pass
\* isAuthorized; a request that does not pass and is not a GET or HEAD of
\* /files/{id} (nor one of the public pages) is answered 401 without any
\* Drive call and without a DriveClient; GET and HEAD on /files/{id} reach
\* streamFile whatever token, or none, the request carries.
C21_UploadsNeedAuth ==
    Fetched =>
        /\ outcome.driveCall \in ProtectedOperations => PassesIsAuthorized
        /\ outcome.status = 401 =>
               /\ ~PassesIsAuthorized
               /\ outcome.driveCall = ""
               /\ ~outcome.clientBuilt
        /\ (/\ ~PassesIsAuthorized
            /\ Segment(invocation.request, 1) = "api"
            /\ invocation.request.method \in {"POST", "DELETE"}) =>
               outcome.status = 401 /\ outcome.driveCall = ""
        /\ (/\ invocation.request.segments = <<"files", "f1">>
            /\ invocation.request.method \in {"GET", "HEAD"}) =>
               /\ outcome.driveCall = "streamFile"
               /\ outcome.status # 401

\* C21 witness: a POST /api/files carrying a well-formed file and a wrong
\* bearer token was answered 401 and no Drive method was called.
C21_Witness ==
    /\ Fetched
    /\ invocation.request.method = "POST"
    /\ invocation.request.segments = <<"api", "files">>
    /\ invocation.request.authorization.present
    /\ invocation.request.body.file.isFile
    /\ ~ExceedsUploadLimit(invocation.request.body.file.size)
    /\ ~PassesIsAuthorized
    /\ outcome.status = 401
    /\ outcome.driveCall = ""

\* Calls c and d are different calls on the same client.
SameClient(c, d) == c # d /\ Started(c) /\ Started(d) /\ calls[c].client = calls[d].client

\* C22: overlapping getAccessToken() calls on a client do not wait for each
\* other: a call whose mint is accepted returns the token of its own exchange,
\* minted for the identity it selected, whether or not another call on the
\* client is minting for the same identity, and stores it with its expiry
\* over whatever the entry held; the entry of an identity changes in no other
\* step, so once the calls have finished it is the token of the mint that
\* completed last.
C22_RedundantMintsLastWins ==
    [][/\ \A c \in CallIds :
              calls[c].pc = "minting" /\ Returns(c) =>
                  LET k == calls[c].client
                      entry == clients'[k].cachedTokens[calls[c].accountKey]
                  IN /\ calls'[c].result = [key |-> calls[c].serviceAccount.private_key,
                                            serial |-> calls[c].exchange]
                     /\ entry.present
                     /\ entry.token = calls'[c].result
                     /\ entry.expiresAt = calls'[c].resultExpiresAt
       /\ \A k \in ClientIds, key \in CacheKeys :
              clients'[k].cachedTokens[key] # clients[k].cachedTokens[key] =>
                  \E c \in CallIds :
                      /\ calls[c].client = k
                      /\ calls[c].accountKey = key
                      /\ Returns(c)
                      /\ clients'[k].cachedTokens[key].token = calls'[c].result]_vars

\* C22 witness: two calls on one client both minted for the same identity and
\* returned different tokens; the one whose exchange started first completed
\* last, and the cache holds its token and expiry.
C22_Witness ==
    \E c, d \in CallIds :
        /\ SameClient(c, d)
        /\ calls[c].pc = "done" /\ calls[d].pc = "done"
        /\ ~calls[c].hit /\ ~calls[d].hit
        /\ calls[c].result.key = calls[d].result.key
        /\ calls[c].result.serial < calls[d].result.serial
        /\ \E key \in CacheKeys :
               /\ ClientOf(c).cachedTokens[key].token = calls[c].result
               /\ ClientOf(c).cachedTokens[key].expiresAt = calls[c].resultExpiresAt
               /\ calls[c].resultExpiresAt # calls[d].resultExpiresAt

\* The invocation is an authorized POST /api/files whose form carries a File.
DirectUpload ==
    /\ Fetched
    /\ invocation.request.method = "POST"
    /\ invocation.request.segments = <<"api", "files">>
    /\ PassesIsAuthorized
    /\ invocation.request.body.form
    /\ invocation.request.body.file.isFile

\* C23: a direct multipart upload whose file is larger than 10 * 1024 * 1024
\* bytes is answered 413 and drive.uploadMultipart is not called; a file of
\* exactly that size or less is never answered 413 and, its metadata field
\* being absent or valid JSON, is passed to drive.uploadMultipart.
C23_DirectUploadLimit ==
    DirectUpload =>
        LET size == invocation.request.body.file.size
        IN /\ size > 10 * 1024 * 1024 =>
                  outcome.status = 413 /\ outcome.driveCall = ""
           /\ size <= 10 * 1024 * 1024 =>
                  /\ outcome.status # 413
                  /\ invocation.request.body.metadata # "invalid" =>
                         outcome.driveCall = "uploadMultipart"

\* C23 witness: a file one byte over 10 MiB was answered 413 with no Drive call.
C23_Witness ==
    /\ DirectUpload
    /\ invocation.request.body.file.size = 10 * 1024 * 1024 + 1
    /\ outcome.status = 413
    /\ outcome.driveCall = ""

\* A file of exactly 10 MiB was passed to Drive and answered 201.
C23_ExactlyAtLimit ==
    /\ DirectUpload
    /\ invocation.request.body.file.size = 10 * 1024 * 1024
    /\ outcome.status = 201
    /\ outcome.driveCall = "uploadMultipart"

\* A listFiles(options) that built its request.
Listed == invocation.fn = "listFiles" /\ ~outcome.threw

\* The parent clause the configured roots call for, as a list of no or one part.
ExpectedParentPart ==
    CASE invocation.root = << << >> >> -> << >>
      [] invocation.root = << <<"p", "1">> >> ->
             << <<"'", "p", "1", "' in parents">> >>
      [] OTHER ->
             << <<"(", "'", "p", "1", "' in parents", " or ",
                  "'", "p", "2", "' in parents", ")">> >>

\* The name clause the search option calls for.
ExpectedSearchPart ==
    LET search == invocation.options.search
    IN CASE search \in {Str(<<"c", "a", "t">>), Str(<<" ", "c", "a", "t", " ">>)} ->
                << <<"name contains '", "c", "a", "t", "'">> >>
         [] search = Str(<<"O", "'", "B", "r", "i", "e", "n">>) ->
                << <<"name contains '", "O", "\\", "'", "B", "r", "i", "e", "n", "'">> >>
         [] search = Str(<<"'", "a", "'", "'">>) ->
                << <<"name contains '", "\\", "'", "a", "\\", "'", "\\", "'", "'">> >>
         [] search = Str(<<"a", "\\", "'", "b">>) ->
                << <<"name contains '", "a", "\\", "\\", "'", "b", "'">> >>
         [] OTHER -> << >>

\* The OR-group of a class's predicates: the predicate itself when the class
\* has one, the parenthesised ' or '-join otherwise.
OrGroup(predicates) ==
    IF Len(predicates) = 1 THEN predicates[1]
    ELSE <<"(">> \o Join(predicates, <<" or ">>) \o <<")">>

ExpectedTypePart ==
    IF invocation.options.type \in {"images", "video", "audio", "documents", "code", "data"}
    THEN << OrGroup(TYPE_FILTERS[invocation.options.type]) >>
    ELSE << >>

\* C24: the q parameter of listFiles is the ' and '-join of, in this order,
\* `trashed = false`, the parent clause when roots are configured (one
\* `'<id>' in parents`, or the parenthesised ' or '-join of several), the
\* clause name contains '<escaped term>' when the trimmed search is not empty,
\* and the OR-group of the class's predicates when the type is a known class.
C24_QueryInOrder ==
    Listed =>
        outcome.q = Join(<< <<"trashed = false">> >> \o ExpectedParentPart
                             \o ExpectedSearchPart \o ExpectedTypePart,
                         <<" and ">>)

\* C24 witness: type images and search cat on a client with one root gave a
\* query of all four parts.
C24_Witness ==
    /\ Listed
    /\ invocation.options.type = "images"
    /\ invocation.options.search = Str(<<"c", "a", "t">>)
    /\ outcome.q = <<"trashed = false", " and ", "'", "p", "1", "' in parents", " and ",
                     "name contains '", "c", "a", "t", "'", " and ",
                     "mimeType contains 'image/'">>

\* The search term of the invocation after trimming, "" when it is no string.
SearchTerm ==
    IF invocation.options.search.kind = "string"
    THEN Trim(invocation.options.search.value) ELSE << >>

\* How many single quotes stand among the first i characters of term.
QuotesBefore(term, i) == Cardinality({ j \in 1 .. i : term[j] = "'" })

\* Where the name clause starts in the query.
NameAt == CHOOSE i \in 1 .. Len(outcome.q) : outcome.q[i] = "name contains '"

\* C25: in the generated query each single quote of the (trimmed) search term
\* stands behind one backslash and every other character stands unchanged, in
\* the order of the term and with nothing in between: character i of the term
\* is found i places, plus one place per quote up to it, into the name
\* clause, and the clause closes right after the last one.
C25_QuotesEscaped ==
    (Listed /\ SearchTerm # << >>) =>
        /\ \E i \in 1 .. Len(outcome.q) : outcome.q[i] = "name contains '"
        /\ \A i \in 1 .. Len(SearchTerm) :
               LET at == NameAt + i + QuotesBefore(SearchTerm, i)
               IN /\ outcome.q[at] = SearchTerm[i]
                  /\ SearchTerm[i] = "'" => outcome.q[at - 1] = "\\"
                  /\ (SearchTerm[i] # "'" /\ i > 1 /\ SearchTerm[i - 1] # "'") =>
                         outcome.q[at - 1] = SearchTerm[i - 1]
        /\ LET end == NameAt + Len(SearchTerm) + QuotesBefore(SearchTerm, Len(SearchTerm)) + 1
           IN /\ Len(outcome.q) >= end
              /\ outcome.q[end] = "'"
              /\ Len(outcome.q) > end => outcome.q[end + 1] = " and "

\* C25 witness: O'Brien was sent as O\'Brien.
C25_Witness ==
    /\ Listed
    /\ invocation.options.search = Str(<<"O", "'", "B", "r", "i", "e", "n">>)
    /\ \E i \in 1 .. Len(outcome.q) :
           /\ i + 9 <= Len(outcome.q)
           /\ SubSeq(outcome.q, i, i + 9) =
                  <<"name contains '", "O", "\\", "'", "B", "r", "i", "e", "n", "'">>

\* A term with several quotes had each of them escaped.
C25_EveryOccurrence ==
    /\ Listed
    /\ invocation.options.search = Str(<<"'", "a", "'", "'">>)
    /\ \E i \in 1 .. Len(outcome.q) :
           /\ i + 8 <= Len(outcome.q)
           /\ SubSeq(outcome.q, i, i + 8) =
                  <<"name contains '", "\\", "'", "a", "\\", "'", "\\", "'", "'">>

\* C26: for every numeric pageSize option the pageSize sent to Drive is
\* min(max(pageSize, 1), 100): above 100 gives 100, below 1 (0 and the
\* negatives) gives 1, a value in range is sent unchanged.
C26_PageSizeClamped ==
    (Listed /\ invocation.options.pageSize.kind = "number") =>
        LET pageSize == invocation.options.pageSize.value
        IN /\ outcome.pageSize = (IF pageSize < 1 THEN 1
                                  ELSE IF pageSize > 100 THEN 100 ELSE pageSize)

\* C26 (amended): the pageSize sent to Drive is within 1 .. 100 for every
\* option; for every number but 0 it is min(max(pageSize, 1), 100); an absent
\* pageSize, NaN and 0 are sent as the default 24.
C26_WithinRange ==
    Listed =>
        /\ outcome.pageSize \in 1 .. 100
        /\ (invocation.options.pageSize.kind = "number"
               /\ invocation.options.pageSize.value # 0) =>
               LET pageSize == invocation.options.pageSize.value
               IN outcome.pageSize = (IF pageSize < 1 THEN 1
                                      ELSE IF pageSize > 100 THEN 100 ELSE pageSize)
        /\ invocation.options.pageSize \in {Undefined, NaN, Num(0)} => outcome.pageSize = 24

\* C26 witness: pageSize 0 was sent as 24.
C26_Witness ==
    /\ Listed
    /\ invocation.options.pageSize = Num(0)
    /\ outcome.pageSize = 24

\* A countFiles(options) that returned.
Counted == invocation.fn = "countFiles" /\ ~outcome.threw

\* The page bound in force: maxPages, 20 when the option is absent.
PageBound ==
    IF invocation.options.maxPages = Undefined THEN 20
    ELSE invocation.options.maxPages.value

\* The number of files, and of folders among them, on the first n pages.
RECURSIVE FilesOn(_, _)
FilesOn(listing, n) ==
    IF n = 0 THEN 0
    ELSE FilesOn(listing, n - 1)
             + (IF listing[n].hasFiles THEN Len(listing[n].files) ELSE 0)
RECURSIVE FoldersOn(_, _)
FoldersOn(listing, n) ==
    IF n = 0 THEN 0
    ELSE FoldersOn(listing, n - 1)
             + (IF listing[n].hasFiles
                THEN Cardinality({ i \in 1 .. Len(listing[n].files) :
                                       listing[n].files[i] = "application/vnd.google-apps.folder" })
                ELSE 0)

C27_EndsEarly ==
    /\ Counted
    /\ invocation.options.maxPages = Num(3)
    /\ outcome.fetched = 2
    /\ outcome.complete

\* The Drive operation of slot c went through fetchJson.
ThroughFetchJson(c) == driveOps[c].request.fn \in {"getMetadata", "deleteFile"}

\* C28: a Drive call made through fetchJson whose response is not 2xx fails
\* with an error carrying the status and the body text of the response; it
\* has then sent exactly one request to Drive and sends no other one (a
\* failed operation takes no further step), and the step in which it fails
\* leaves the rotation cursor and the token cache of every client unchanged.
C28_FailsOnceNoRetry ==
    [][\A c \in CallIds :
          /\ (/\ driveOps[c].pc = "sent"
              /\ driveOps'[c].pc # "sent"
              /\ ThroughFetchJson(c)
              /\ driveOps'[c].response.status \notin 200 .. 299) =>
                 /\ driveOps'[c].pc = "failed"
                 /\ driveOps'[c].result.kind = "error"
                 /\ driveOps'[c].result.status = driveOps'[c].response.status
                 /\ driveOps'[c].result.body = driveOps'[c].response.body
                 /\ driveOps'[c].sent = 1
                 /\ clients' = clients
          /\ driveOps[c].pc = "failed" => driveOps'[c] = driveOps[c]
          /\ driveOps'[c].sent <= 1]_vars

\* C28 witness: a getMetadata answered 404 has failed with the status and the
\* text of the response after one request, and the token it sent is still the
\* cached token of its identity.
C28_Witness ==
    \E c \in CallIds :
        /\ driveOps[c].pc = "failed"
        /\ driveOps[c].request.fn = "getMetadata"
        /\ driveOps[c].response.status = 404
        /\ driveOps[c].result = Thrown(404, "File not found")
        /\ driveOps[c].sent = 1
        /\ \E key \in CacheKeys :
               /\ ClientOf(c).cachedTokens[key].present
               /\ ClientOf(c).cachedTokens[key].token = driveOps[c].bearer

\* C29: streamFile sends the caller's Range header to Drive (none when the
\* caller gave none); an upstream 200 or 206 (any 2xx) is returned with its
\* status and body, the body empty for HEAD; any other status makes it throw;
\* the headers returned always have Access-Control-Allow-Origin '*',
\* Content-Disposition 'inline', and the upstream Cache-Control when there is
\* one, 'public, max-age=86400' otherwise.
C29_StreamPassThrough ==
    \A c \in CallIds :
        driveOps[c].request.fn = "streamFile" =>
            LET op == driveOps[c]
            IN /\ op.range = op.request.range
               /\ op.pc \in {"done", "failed"} =>
                      IF op.response.status \in {200, 204, 206}
                      THEN /\ op.pc = "done"
                           /\ op.result.kind = "value"
                           /\ op.result.status = op.response.status
                           /\ op.result.body = (IF op.request.method = "HEAD" THEN ""
                                                ELSE op.response.body)
                           /\ op.result.headers.allowOrigin = "*"
                           /\ op.result.headers.contentDisposition = "inline"
                           /\ op.result.headers.cacheControl =
                                  (IF op.response.cacheControl = ""
                                   THEN "public, max-age=86400"
                                   ELSE op.response.cacheControl)
                      ELSE /\ op.pc = "failed"
                           /\ op.result.kind = "error"

\* C29 witness: a ranged GET answered 206 without Cache-Control and with
\* Content-Disposition attachment was passed on as 206 with the body, the
\* default Cache-Control and Content-Disposition inline.
C29_Witness ==
    \E c \in CallIds :
        /\ driveOps[c].pc = "done"
        /\ driveOps[c].request = [fn |-> "streamFile", method |-> "GET", range |-> "bytes=0-99"]
        /\ driveOps[c].range = "bytes=0-99"
        /\ driveOps[c].response.status = 206
        /\ driveOps[c].response.contentDisposition = "attachment"
        /\ driveOps[c].result.status = 206
        /\ driveOps[c].result.body = "content"
        /\ driveOps[c].result.headers =
               [allowOrigin |-> "*", contentDisposition |-> "inline",
                cacheControl |-> "public, max-age=86400"]

\* A HEAD answered 200 with a Cache-Control of its own was passed on with an
\* empty body and that Cache-Control.
C29_HeadKeepsCacheControl ==
    \E c \in CallIds :
        /\ driveOps[c].pc = "done"
        /\ driveOps[c].request.method = "HEAD"
        /\ driveOps[c].method = "HEAD"
        /\ driveOps[c].result.body = ""
        /\ driveOps[c].result.headers.cacheControl = "private, max-age=0"

\* A generateServiceAccountAssertion(serviceAccount) that returned.
Asserted == invocation.fn = "generateServiceAccountAssertion" /\ ~outcome.threw

\* The places of the dots of the assertion, and the pieces of it between
\* its start, its dots and its end (three pieces when there are two dots).
DotsAt == { i \in 1 .. Len(outcome.assertion) : outcome.assertion[i] = "." }
Segments ==
    LET first == CHOOSE i \in DotsAt : \A j \in DotsAt : i <= j
        last == CHOOSE i \in DotsAt : \A j \in DotsAt : j <= i
    IN <<SubSeq(outcome.assertion, 1, first - 1),
         SubSeq(outcome.assertion, first + 1, last - 1),
         SubSeq(outcome.assertion, last + 1, Len(outcome.assertion))>>

\* The alphabet of base64url, and the 6-bit value of one of its characters.
UrlAlphabet ==
    <<"A", "B", "C", "D", "E", "F", "G", "H", "I", "J", "K", "L", "M", "N", "O", "P", "Q", "R",
      "S", "T", "U", "V", "W", "X", "Y", "Z", "a", "b", "c", "d", "e", "f", "g", "h", "i", "j",
      "k", "l", "m", "n", "o", "p", "q", "r", "s", "t", "u", "v", "w", "x", "y", "z", "0", "1",
      "2", "3", "4", "5", "6", "7", "8", "9", "-", "_">>
SextetOf(char) == (CHOOSE i \in 1 .. 64 : UrlAlphabet[i] = char) - 1

\* The character of a code in 32 .. 126 other than 96.
CharOf(code) == IF code < 96 THEN AsciiLow[code - 31] ELSE AsciiHigh[code - 96]

\* The text a base64url segment without padding stands for: four characters
\* give three bytes, a rest of three gives two, a rest of two gives one.
RECURSIVE Base64UrlDecode(_)
Base64UrlDecode(segment) ==
    IF Len(segment) < 2 THEN << >>
    ELSE LET s1 == SextetOf(segment[1])
             s2 == SextetOf(segment[2])
             b1 == s1 * 4 + (s2 \div 16)
         IN IF Len(segment) = 2 THEN <<CharOf(b1)>>
            ELSE LET s3 == SextetOf(segment[3])
                     b2 == (s2 % 16) * 16 + (s3 \div 4)
                 IN IF Len(segment) = 3 THEN <<CharOf(b1), CharOf(b2)>>
                    ELSE LET b3 == (s3 % 4) * 64 + SextetOf(segment[4])
                         IN <<CharOf(b1), CharOf(b2), CharOf(b3)>>
                                \o Base64UrlDecode(SubSeq(segment, 5, Len(segment)))

\* The JSON text of the client_email of the invocation as a string.
ExpectedIss ==
    LET email == invocation.serviceAccount.client_email
    IN IF email = <<"\"", "a", "\"", "@", "s", "a">>
       THEN <<"\"", "\\", "\"", "a", "\\", "\"", "@", "s", "a", "\"">>
       ELSE <<"\"">> \o email \o <<"\"">>

\* The payload the claim describes, for the invocation's client_email and time.
ExpectedPayload ==
    LET iat == invocation.now \div 1000
    IN <<"{", "\"", "i", "s", "s", "\"", ":">> \o ExpectedIss
       \o <<",", "\"", "s", "c", "o", "p", "e", "\"", ":", "\"", "h", "t", "t", "p", "s", ":",
             "/", "/", "w", "w", "w", ".", "g", "o", "o", "g", "l", "e", "a", "p", "i", "s", ".",
             "c", "o", "m", "/", "a", "u", "t", "h", "/", "d", "r", "i", "v", "e", "\"">>
       \o <<",", "\"", "a", "u", "d", "\"", ":", "\"", "h", "t", "t", "p", "s", ":", "/", "/",
             "o", "a", "u", "t", "h", "2", ".", "g", "o", "o", "g", "l", "e", "a", "p", "i", "s",
             ".", "c", "o", "m", "/", "t", "o", "k", "e", "n", "\"">>
       \o <<",", "\"", "e", "x", "p", "\"", ":">> \o NumberText(iat + 3600)
       \o <<",", "\"", "i", "a", "t", "\"", ":">> \o NumberText(iat)
       \o <<"}">>

\* C30: the assertion built for a service account is three segments between
\* two dots, each of base64url characters only (no '=', '+' or '/'); the
\* first decodes to exactly {"alg":"RS256","typ":"JWT"} and the second to
\* exactly the payload with iss = client_email, the Drive scope, aud = the
\* token endpoint, exp = iat + 3600 and iat = the time in seconds.
C30_AssertionRoundTrip ==
    Asserted =>
        LET segments == Segments
        IN /\ Cardinality(DotsAt) = 2
           /\ \A i \in 1 .. Len(outcome.assertion) :
                  outcome.assertion[i] \notin {"=", "+", "/"}
           /\ \A s \in 1 .. 3 :
                  /\ segments[s] # << >>
                  /\ \A i \in 1 .. Len(segments[s]) :
                         \E v \in 1 .. 64 : UrlAlphabet[v] = segments[s][i]
           /\ Base64UrlDecode(segments[1]) =
                  <<"{", "\"", "a", "l", "g", "\"", ":", "\"", "R", "S", "2", "5", "6", "\"",
                    ",", "\"", "t", "y", "p", "\"", ":", "\"", "J", "W", "T", "\"", "}">>
           /\ Base64UrlDecode(segments[2]) = ExpectedPayload

\* C30 witness: an assertion whose payload segment holds a '-' (a '+' of
\* plain base64) and had padding to lose decodes to the header and to the
\* payload of its service account.
C30_Witness ==
    /\ Asserted
    /\ invocation.serviceAccount.client_email = <<"~", "a", "b", "@", "s", "a">>
    /\ LET segments == Segments
       IN /\ Cardinality(DotsAt) = 2
          /\ \E i \in 1 .. Len(segments[2]) : segments[2][i] = "-"
          /\ Len(segments[2]) % 4 # 0
          /\ Len(segments[3]) % 4 # 0
          /\ Base64UrlDecode(segments[2]) = ExpectedPayload

\* The service-account mint of call c is rejected in this step.
MintFails(c) ==
    /\ calls[c].pc = "minting"
    /\ calls'[c].pc # "minting"
    /\ calls'[c].pc # "done"

\* The rotation cursor of client k.
Cursor(k) == clients[k].currentServiceAccountIndex

\* C31: the cursor of a client changes only in a step in which a
\* service-account mint of a call on it fails, and every such failure moves it
\* by exactly +1 modulo the size of the set; a call that returns a cached
\* token, or whose first mint succeeds, returns with the cursor where it was
\* when the call was invoked.
C31_RotationReactiveOnly ==
    [][/\ \A k \in ClientIds :
              (clients[k].exists /\ Cursor(k)' # Cursor(k)) =>
                  \E c \in CallIds : calls[c].client = k /\ MintFails(c)
       /\ \A c \in CallIds :
              MintFails(c) =>
                  LET k == calls[c].client
                  IN Cursor(k)' = (Cursor(k) + 1) % Len(clients[k].serviceAccounts)
       /\ \A c \in CallIds :
              (Returns(c) /\ calls'[c].attempts <= 1) =>
                  Cursor(calls[c].client)' = calls[c].startCursor]_vars

\* C31 witness: on a set of two, a call failed over once (cursor moved by one)
\* and the next call on the client returned the same token from the cache,
\* with the cursor where the first call had left it.
C31_Witness ==
    \E c, d \in CallIds :
        /\ Following(c, d)
        /\ calls[c].pc = "done" /\ calls[d].pc = "done"
        /\ Len(AccountsOf(c)) = 2
        /\ calls[c].attempts = 2
        /\ calls[d].attempts = 0
        /\ calls[d].hit
        /\ calls[d].startCursor = (calls[c].startCursor + 1) % 2
        /\ ClientOf(c).currentServiceAccountIndex = calls[d].startCursor
        /\ calls[d].result = calls[c].result

\* The token cache of client k.
Cache(k) == clients[k].cachedTokens

\* The exchange of call c (service-account mint or OAuth refresh) is accepted
\* in this step, or rejected in this step.
ExchangeSucceeds(c) == calls[c].pc \in {"minting", "refreshing"} /\ Returns(c)
ExchangeFails(c) ==
    /\ calls[c].pc \in {"minting", "refreshing"}
    /\ calls'[c].pc \notin {"minting", "refreshing", "done"}

\* C32: an entry of a client's token cache changes only in a step in which an
\* exchange of a call on that client succeeds, and then only the entry under
\* the key of the identity exchanged (client_email, or 'default', or 'oauth');
\* a failed exchange leaves every entry as it was, the entry of the failing
\* identity included, and a call that returns a cached token writes nothing.
C32_CacheWrittenOnSuccessOnly ==
    [][/\ \A k \in ClientIds, key \in CacheKeys :
              Cache(k)'[key] # Cache(k)[key] =>
                  \E c \in CallIds :
                      /\ calls[c].client = k
                      /\ ExchangeSucceeds(c)
                      /\ key = (IF calls[c].pc = "refreshing" THEN "oauth"
                                ELSE IF calls[c].serviceAccount.client_email = ""
                                THEN "default"
                                ELSE calls[c].serviceAccount.client_email)
       /\ \A c \in CallIds :
              ExchangeFails(c) => Cache(calls[c].client)' = Cache(calls[c].client)
       /\ \A c \in CallIds :
              (calls[c].pc = "loaded" /\ Returns(c)) =>
                  Cache(calls[c].client)' = Cache(calls[c].client)]_vars

\* C32 witness: B's token was cached by one call; B then failed in the next
\* call, which went on to A: B's entry is still the token the first call
\* returned, and A's entry is the token of the second.
C32_Witness ==
    \E c, d \in CallIds :
        /\ Following(c, d)
        /\ calls[c].pc = "done" /\ calls[d].pc = "done"
        /\ calls[c].result.key = "kB"
        /\ calls[d].tried = <<"kB", "kA">>
        /\ ClientOf(d).cachedTokens["b@sa"].present
        /\ ClientOf(d).cachedTokens["b@sa"].token = calls[c].result
        /\ ClientOf(d).cachedTokens["a@sa"].token = calls[d].result

\* The OAuth refresh of call c is rejected in this step.
RefreshFails(c) == calls[c].pc = "refreshing" /\ calls'[c].pc # "refreshing" /\ ~Returns(c)

\* C33: on the OAuth path a rejected refresh-token exchange ends the call with
\* that error at once: the call started this one exchange and no other (it
\* entered the exchange once, from the selection, and made no service-account
\* attempt), the failing step starts no exchange and changes no client (the
\* cursor and the 'oauth' entry stay as they were), and the failed call takes
\* no further step.
C33_RefreshFailureSurfaced ==
    [][\A c \in CallIds :
          /\ RefreshFails(c) =>
                 /\ calls'[c].pc = "failed"
                 /\ calls'[c].error = "refresh"
                 /\ calls[c].attempts = 0
                 /\ mints' = mints
                 /\ clients' = clients
          /\ (calls[c].pc # "refreshing" /\ calls'[c].pc = "refreshing") =>
                 /\ calls[c].pc = "loaded"
                 /\ calls[c].error = ""
                 /\ mints' = mints + 1
          /\ calls[c].pc = "failed" => calls'[c] = calls[c]]_vars

\* C33 witness: the only call so far failed with the refresh error after the
\* single exchange of the process; the cursor is 0 and there is no 'oauth' entry.
C33_Witness ==
    \E c \in CallIds :
        /\ calls[c].pc = "failed"
        /\ calls[c].error = "refresh"
        /\ calls[c].attempts = 0
        /\ mints = 1
        /\ ClientOf(c).currentServiceAccountIndex = 0
        /\ ~ClientOf(c).cachedTokens["oauth"].present


\* C34: the token a call returns belongs to the record the cursor selects: a
\* token taken from the cache was minted from the private key of the record
\* getCurrentServiceAccount() yields at that moment, and a token the call
\* minted itself comes from the record it signed with.
Selected(c) ==
    getCurrentServiceAccount(ClientOf(c).serviceAccounts,
                             ClientOf(c).currentServiceAccountIndex)

C34_TokenOfSelectedAccount ==
    [][\A c \in CallIds :
          /\ (calls[c].pc = "loaded" /\ Returns(c) /\ Selected(c) # NoAccount) =>
                 calls'[c].result.key = Selected(c).private_key
          /\ (calls[c].pc = "minting" /\ Returns(c)) =>
                 calls'[c].result.key = calls[c].serviceAccount.private_key]_vars

\* C35 (stated as claimed; the code violates it): with exactly one identity of
\* the set failing for good and calls overlapping on one client, every
\* invoked call eventually returns a token of a healthy identity, and whenever
\* no call is in progress after one has returned, the cursor of its client is
\* on a healthy identity.
ReturnedHealthy(c) == calls[c].pc = "done" /\ calls[c].result.key \notin broken

C35_EveryCallReturns ==
    /\ \A c \in CallIds : Started(c) ~> ReturnedHealthy(c)
    /\ [](\A c \in CallIds :
             (Quiet /\ calls[c].pc = "done") => Selected(c).private_key \notin broken)

\* The second half alone, which the code keeps: at rest after a call has
\* returned, the cursor is on a healthy identity.
C35_CursorHealthyAtRest ==
    \A c \in CallIds :
        (Quiet /\ calls[c].pc = "done") => Selected(c).private_key \notin broken

\* Where the name clause closes in the query, and how many backslashes stand
\* in a row right before place p of the clause.
NameEnd == NameAt + Len(SearchTerm) + QuotesBefore(SearchTerm, Len(SearchTerm)) + 1
BackslashesBefore(p) ==
    Cardinality({ n \in 1 .. (p - NameAt - 1) :
                     \A j \in 1 .. n : outcome.q[p - j] = "\\" })

\* C36 (stated as claimed; the code violates it): for every search term every
\* single quote between the delimiting quotes of the name clause stands behind
\* an odd number of consecutive backslashes, so that none of them closes the
\* literal.
C36_LiteralNotClosed ==
    (Listed /\ SearchTerm # << >>) =>
        \A p \in (NameAt + 1) .. (NameEnd - 1) :
            outcome.q[p] = "'" => BackslashesBefore(p) % 2 = 1

\* The same for the terms without a backslash, which the code keeps.
C36_WithoutBackslash ==
    (Listed /\ SearchTerm # << >> /\ \A i \in 1 .. Len(SearchTerm) : SearchTerm[i] # "\\") =>
        \A p \in (NameAt + 1) .. (NameEnd - 1) :
            outcome.q[p] = "'" => BackslashesBefore(p) % 2 = 1

\* The tokens a request presents: the text after the bearer scheme of its
\* authorization header, trimmed, and its x-api-key header.
PresentedTokens(request) ==
    (IF /\ request.authorization.present
        /\ Len(request.authorization.value) >= BearerLength
        /\ Lower(SubSeq(request.authorization.value, 1, BearerLength)) = BearerPrefix
     THEN {Trim(SubSeq(request.authorization.value, BearerLength + 1,
                       Len(request.authorization.value)))}
     ELSE {})
    \cup (IF request.xApiKey.present THEN {request.xApiKey.value} ELSE {})

\* The trimmed entries of the API_TOKENS the deployment configures.
ConfiguredEntries(apiTokens) ==
    IF apiTokens.set
    THEN { Trim(apiTokens.pieces[i]) : i \in 1 .. Len(apiTokens.pieces) }
    ELSE {}

\* The worker of a deployment answered a request to an endpoint behind the check.
Deployed == invocation.fn = "fetchDeployed"

\* C37 (stated as claimed; the code violates it): a request to an
\* authenticated endpoint gets past the token check only if it presents a
\* non-empty token equal to one of the trimmed entries of the deployment's
\* API_TOKENS; a deployment that configures no API_TOKENS accepts no token.
C37_ConfiguredTokensOnly ==
    Deployed =>
        /\ outcome.status # 401 =>
               \E token \in PresentedTokens(invocation.request) :
                   token # << >> /\ token \in ConfiguredEntries(invocation.apiTokens)
        /\ ~invocation.apiTokens.set => outcome.status = 401

\* The same for the deployments that set API_TOKENS, which the code keeps.
C37_WhenConfigured ==
    (Deployed /\ invocation.apiTokens.set) =>
        /\ outcome.status # 401 =>
               \E token \in PresentedTokens(invocation.request) :
                   token # << >> /\ token \in ConfiguredEntries(invocation.apiTokens)
        /\ ConfiguredEntries(invocation.apiTokens) \subseteq {<< >>} => outcome.status = 401

\* How many tracking calls on key are over.
Completed(key) ==
    Cardinality({ e \in TrackerIds : trackers[e].pc = "done" /\ trackers[e].key = key })

\* The counters the store held at the start, as numbers.
CountAtStart(key) ==
    CASE key = "total_uploads" -> 0
      [] key = "total_file_requests" -> 9
      [] OTHER -> 19

\* C38 (stated as claimed; the code violates it): when every tracking call
\* that was started is over, the counter of each kind stands k above its
\* value at the start, k being the number of tracked events of that kind.
C38_CountsEveryEvent ==
    (\A e \in TrackerIds : trackers[e].pc \in {"idle", "done"}) =>
        \A key \in StatsKeys :
            Completed(key) > 0 =>
                STATS[key] = Value(NumberText(CountAtStart(key) + Completed(key)))

\* C39 (stated as claimed; the code violates it): whenever no file request is
\* in flight and no debounce timer is pending, the list the page shows holds
\* the result of requests made with the current search term and the current
\* type filter only.
C39_ShownMatchesInputs ==
    (dashboard.started /\ ~dashboard.request.inFlight /\ ~dashboard.searchDebounce.pending) =>
        \A asked \in dashboard.filteredFiles :
            asked.search = dashboard.currentSearch /\ asked.type = dashboard.currentFilter

\* C40 (stated as claimed; the code violates it): on every route, a Drive
\* operation that throws while the worker handles the request gives a
\* response with status 500; the error never leaves the fetch handler.
C40_DriveErrorsAnswered500 ==
    (Fetched /\ invocation.drive.threw /\ outcome.driveCall # "") =>
        outcome.status = 500

\* The same for the routes behind the token check and for file delivery,
\* which run inside the try block of fetch.
C40_InsideTry ==
    (Fetched /\ invocation.drive.threw /\ outcome.driveCall # ""
       /\ ~(Segment(invocation.request, 1) = "api"
              /\ Segment(invocation.request, 2) = "dashboard")) =>
        outcome.status = 500
====
